---- MODULE Spec2Model ----
(***************************************************************************)
(* Multi-tenant task backend: task store with owner-scoped queries, the    *)
(* HTTP task routes, the MCP tool bridge (per-invocation sessions and the  *)
(* legacy global context) and the JWT identity verifier (legacy-only and   *)
(* dual mode).                                                             *)
(***************************************************************************)
EXTENDS Integers, Sequences, FiniteSets, TLC

VARIABLES
    tasks,      \* committed rows of table "task": id -> row
    nextId,     \* next identifier handed out by uuid4 (never reused)
    now,        \* value of the database's now()
    resp,       \* last answer of an atomic HTTP route / tool call
    settings,   \* Settings instance used by the identity verifier
    credential, \* Authorization header of the request being authenticated
    authOut,    \* outcome of the identity verifier for that request
    inv,        \* in-flight MCP tool invocations / HTTP requests (step level)
    runs,       \* agent runs of the legacy function_tool mode
    ctx,        \* the module globals _current_session / _current_user_id
    users,      \* rows of table "users": email -> password
    conversations \* rows of table "conversations": id -> owner

vars ==
    <<tasks, nextId, now, resp, settings, credential, authOut, inv, runs, ctx, users,
      conversations>>

----------------------------------------------------------------------------
\* Bounds of the model

MaxTasks == 1
MaxClock == 1

----------------------------------------------------------------------------
\* Text: a str is a sequence of one-character strings; None is Python's None

None == <<"None">>

Owners == {"A", "B"}

TITLE_MAX_LENGTH == 255

PENDING == "pending"
COMPLETED == "completed"

TaskStatus == {PENDING, COMPLETED}

IsSpace(c) == c \in {" ", "\t"}

RECURSIVE LStrip(_)
LStrip(s) == IF s # <<>> /\ IsSpace(Head(s)) THEN LStrip(Tail(s)) ELSE s

RECURSIVE RStrip(_)
RStrip(s) == IF s # <<>> /\ IsSpace(s[Len(s)])
             THEN RStrip(SubSeq(s, 1, Len(s) - 1)) ELSE s

\* str.strip()
Strip(s) == RStrip(LStrip(s))

RECURSIVE SqlTrimLeft(_)
SqlTrimLeft(s) == IF s # <<>> /\ Head(s) = " " THEN SqlTrimLeft(Tail(s)) ELSE s

RECURSIVE SqlTrimRight(_)
SqlTrimRight(s) == IF s # <<>> /\ s[Len(s)] = " "
                   THEN SqlTrimRight(SubSeq(s, 1, Len(s) - 1)) ELSE s

\* SQL trim(title): removes blanks only
SqlTrim(s) == SqlTrimRight(SqlTrimLeft(s))

\* title[:255] if len(title) > 255 else title
Truncate(s) == IF Len(s) > TITLE_MAX_LENGTH THEN SubSeq(s, 1, TITLE_MAX_LENGTH) ELSE s

----------------------------------------------------------------------------
\* Table "task"

NewTask(id, user_id, title, description, t) ==
    [id |-> id, user_id |-> user_id, title |-> title,
     description |-> description, status |-> PENDING,
     created_at |-> t, updated_at |-> t]

\* NOT NULL columns, varchar(255) and the two CHECK constraints, as the
\* database enforces them when a row is written
RowViolates(row) ==
    \/ row.user_id = "None"
    \/ row.title = None
    \/ Len(row.title) > TITLE_MAX_LENGTH
    \/ SqlTrim(row.title) = <<>>
    \/ row.status \notin TaskStatus

\* select(Task).where(Task.id == task_id, Task.user_id == user_id)
SelectByIdAndUserNoOwner(store, task_id, user_id) ==
    IF task_id \in DOMAIN store THEN {task_id} ELSE {}

SelectByIdAndUser(store, task_id, user_id) ==
    IF task_id \in DOMAIN store /\ store[task_id].user_id = user_id
    THEN {task_id} ELSE {}

\* select(cls).where(cls.user_id == user_id)
get_by_user_all(store, user_id) == DOMAIN store

get_by_user(store, user_id) ==
    {id \in DOMAIN store : store[id].user_id = user_id}

\* select(cls).where(cls.user_id == user_id, cls.status == status)
get_by_user_and_status(store, user_id, status) ==
    {id \in DOMAIN store : store[id].user_id = user_id /\ store[id].status = status}

allowed_fields == {"title", "description", "status"}

\* for field, value in updates.items(): if field in allowed_fields: setattr(...)
ApplyUpdatesUnfiltered(row, updates) ==
    [f \in DOMAIN row |-> IF f \in DOMAIN updates THEN updates[f] ELSE row[f]]

ApplyUpdates(row, updates) ==
    [f \in DOMAIN row |->
        IF f \in DOMAIN updates /\ f \in allowed_fields THEN updates[f] ELSE row[f]]

\* session.flush() of a modified row: an UPDATE is emitted only when a column
\* has a net change, and onupdate=func.now() fires with that UPDATE
Flushed(old, new, t) ==
    IF new = old THEN old ELSE [new EXCEPT !.updated_at = t]

\* Task.update_task: outcome "none" (no such owned row), "fault" (the flush
\* is rejected by the database) or "ok" with the store as the session sees it
ModelUpdateTask(store, task_id, user_id, updates, t) ==
    LET found == SelectByIdAndUser(store, task_id, user_id) IN
    IF found = {} THEN [outcome |-> "none", store |-> store]
    ELSE LET new == ApplyUpdates(store[task_id], updates) IN
         IF RowViolates(new) THEN [outcome |-> "fault", store |-> store]
         ELSE [outcome |-> "ok",
               store |-> [store EXCEPT ![task_id] = Flushed(store[task_id], new, t)]]

RemoveRow(store, task_id) == [id \in DOMAIN store \ {task_id} |-> store[id]]

\* a delete whose DELETE statement is keyed by the owner alone
ModelDeleteTaskByOwner(store, task_id, user_id) ==
    LET found == SelectByIdAndUser(store, task_id, user_id) IN
    IF found = {} THEN [outcome |-> "none", store |-> store]
    ELSE [outcome |-> "ok",
          store |-> [id \in {i \in DOMAIN store : store[i].user_id # user_id} |-> store[id]]]

\* Task.delete_task
ModelDeleteTask(store, task_id, user_id) ==
    LET found == SelectByIdAndUser(store, task_id, user_id) IN
    IF found = {} THEN [outcome |-> "none", store |-> store]
    ELSE [outcome |-> "ok", store |-> RemoveRow(store, task_id)]

----------------------------------------------------------------------------
\* Task Query Builder (GET /tasks)

Lower(c) == CASE c = "A" -> "a" [] c = "B" -> "b" [] OTHER -> c

\* code point order of the characters the model uses
Ord(c) == CASE c = "\t" -> 9 [] c = " " -> 32 [] c = "%" -> 37 [] c = "A" -> 65
            [] c = "B" -> 66 [] c = "_" -> 95 [] c = "a" -> 97 [] c = "b" -> 98
            [] OTHER -> 127

LowerText(s) == [i \in 1..Len(s) |-> Lower(s[i])]

RECURSIVE TextLess(_, _)
TextLess(s, t) ==
    IF t = <<>> THEN FALSE
    ELSE IF s = <<>> THEN TRUE
    ELSE IF Ord(Head(s)) # Ord(Head(t)) THEN Ord(Head(s)) < Ord(Head(t))
    ELSE TextLess(Tail(s), Tail(t))

\* column.ilike(pattern): % matches any run, _ any one character,
\* everything else is compared ignoring case; NULL never matches
RECURSIVE Like(_, _)
Like(p, s) ==
    IF p = <<>> THEN s = <<>>
    ELSE IF Head(p) = "%"
         THEN Like(Tail(p), s) \/ (s # <<>> /\ Like(p, Tail(s)))
         ELSE /\ s # <<>>
              /\ (Head(p) = "_" \/ Lower(Head(p)) = Lower(Head(s)))
              /\ Like(Tail(p), Tail(s))

ILike(column, pattern) == column # None /\ Like(pattern, column)

\* search_pattern = f"%{search_term}%"
search_pattern(search_term) == <<"%">> \o search_term \o <<"%">>

\* rows kept by the status and search clauses of list_tasks
ListFilter(store, user_id, status, search) ==
    {id \in get_by_user(store, user_id) :
        /\ (status # "None" => store[id].status = status)
        /\ (search # None /\ Strip(search) # <<>> =>
               \/ ILike(store[id].title, search_pattern(Strip(search)))
               \/ ILike(store[id].description, search_pattern(Strip(search))))}

\* ORDER BY sort_column ASC: strictly-before relation of two rows
SortBefore(store, a, b, sort) ==
    IF sort = "title"
    THEN TextLess(LowerText(store[a].title), LowerText(store[b].title))
    ELSE store[a].created_at < store[b].created_at

\* the rows that may come first under ORDER BY sort_column <order>: those no
\* other row of ids sorts before
FirstRows(store, ids, sort, order) ==
    {a \in ids : \A b \in ids :
        IF order = "asc" THEN ~SortBefore(store, b, a, sort)
                         ELSE ~SortBefore(store, a, b, sort)}

\* every order the database may return for ORDER BY sort_column <order>
\* (rows with equal keys come in any order)
RECURSIVE Ordered(_, _, _, _)
Ordered(store, ids, sort, order) ==
    IF ids = {} THEN {<<>>}
    ELSE UNION {{<<a>> \o q : q \in Ordered(store, ids \ {a}, sort, order)} :
                  a \in FirstRows(store, ids, sort, order)}

\* query.offset(offset).limit(limit)
Page(q, offset, limit) ==
    SubSeq(q, offset + 1, IF offset + limit < Len(q) THEN offset + limit ELSE Len(q))

LIMIT_MAX == 100
SEARCH_MAX_LENGTH == 100
DEFAULT_LIMIT == 20

\* a validation without the upper bound on limit (a server that clamps the
\* page size instead of refusing the request)
ListParamsClamped(p) ==
    /\ p.offset >= 0
    /\ p.limit >= 1
    /\ p.status \in TaskStatus \cup {"None"}
    /\ (p.search # None => Len(p.search) <= SEARCH_MAX_LENGTH)
    /\ p.sort \in {"created_at", "title"}
    /\ p.order \in {"asc", "desc"}

\* Query(...) validation of the list parameters
ListParamsValid(p) ==
    /\ p.offset >= 0
    /\ p.limit >= 1 /\ p.limit <= LIMIT_MAX
    /\ p.status \in TaskStatus \cup {"None"}
    /\ (p.search # None => Len(p.search) <= SEARCH_MAX_LENGTH)
    /\ p.sort \in {"created_at", "title"}
    /\ p.order \in {"asc", "desc"}

\* the id sequences list_tasks may return
ListTasksResults(store, user_id, p) ==
    {Page(q, p.offset, p.limit) :
        q \in Ordered(store, ListFilter(store, user_id, p.status, p.search),
                      p.sort, p.order)}

----------------------------------------------------------------------------
\* Request/Response contract of the task routes

TaskIds == 1..MaxTasks

\* a task-id argument that is not parseable as a UUID
BadId == 0

TasksPath == "/api/v1/tasks"

\* ProblemDetail(...).model_dump(exclude_none=True)
ProblemDetail(status, title, detail, path, task_id) ==
    [type |-> "about:blank", title |-> title, status |-> status,
     detail |-> detail, instance |-> path, instance_id |-> task_id]

\* task_not_found_handler(TaskNotFoundError(str(task_id)))
NotFoundResponse(task_id) ==
    [code |-> 404,
     body |-> ProblemDetail(404, "Not Found", "Task {task_id} not found", TasksPath, task_id)]

\* validation_error_handler
ValidationResponse(task_id, loc) ==
    [code |-> 422,
     body |-> [type |-> "about:blank", title |-> "Validation Error", status |-> 422,
               detail |-> "Request validation failed", instance |-> TasksPath,
               instance_id |-> task_id, errors |-> loc]]

\* no handler is registered for Exception: the server's plain 500 answer
ServerErrorResponse == [code |-> 500, body |-> [text |-> "Internal Server Error"]]

\* TaskResponse.model_validate(task)
TaskResponse(row) == row

\* TaskCreate validation: the invalid fields of a POST body
TaskCreateErrors(body) ==
    LET badTitle == \/ "title" \notin DOMAIN body
                    \/ body.title = None
                    \/ Len(body.title) < 1
                    \/ Len(body.title) > TITLE_MAX_LENGTH
    IN IF badTitle THEN {"title"} ELSE {}

\* TaskUpdate validation: the invalid fields of a PATCH body
TaskUpdateErrors(body) ==
    {f \in DOMAIN body :
        \/ f = "title" /\ body[f] # None
                       /\ (Len(body[f]) < 1 \/ Len(body[f]) > TITLE_MAX_LENGTH)
        \/ f = "status" /\ body[f] # "None" /\ body[f] \notin TaskStatus}

TaskUpdateFields == {"title", "description", "status"}

\* task_in.model_dump(exclude_unset=True): the declared fields the body sets
ModelDumpUnset(body) ==
    [f \in DOMAIN body \cap TaskUpdateFields |-> body[f]]

\* a get that tells the caller the id exists under another owner
HttpGetTaskForbidden(store, user_id, task_id) ==
    IF task_id = BadId THEN ValidationResponse(task_id, {"task_id"})
    ELSE IF task_id \notin DOMAIN store THEN NotFoundResponse(task_id)
    ELSE IF store[task_id].user_id # user_id
         THEN [code |-> 403,
               body |-> ProblemDetail(403, "Forbidden", "Forbidden", TasksPath, task_id)]
    ELSE [code |-> 200, body |-> TaskResponse(store[task_id])]

\* GET /tasks/{task_id}
HttpGetTask(store, user_id, task_id) ==
    IF task_id = BadId THEN ValidationResponse(task_id, {"task_id"})
    ELSE IF SelectByIdAndUser(store, task_id, user_id) = {} THEN NotFoundResponse(task_id)
    ELSE [code |-> 200, body |-> TaskResponse(store[task_id])]

\* a POST /tasks that takes the owner and the status from the body when the
\* body names them
HttpCreateTaskFromBody(store, user_id, body, id, t) ==
    IF TaskCreateErrors(body) # {}
    THEN [store |-> store, resp |-> ValidationResponse(BadId, TaskCreateErrors(body))]
    ELSE LET made == NewTask(id, user_id, body.title,
                             IF "description" \in DOMAIN body THEN body.description
                                                              ELSE None,
                             t)
             row == [f \in DOMAIN made |->
                        IF f \in {"user_id", "status"} /\ f \in DOMAIN body
                        THEN body[f] ELSE made[f]]
         IN IF RowViolates(row)
            THEN [store |-> store, resp |-> ServerErrorResponse]
            ELSE [store |-> [i \in DOMAIN store \cup {id} |->
                                IF i = id THEN row ELSE store[i]],
                  resp |-> [code |-> 201, body |-> TaskResponse(row)]]

\* POST /tasks
HttpCreateTask(store, user_id, body, id, t) ==
    IF TaskCreateErrors(body) # {}
    THEN [store |-> store, resp |-> ValidationResponse(BadId, TaskCreateErrors(body))]
    ELSE LET row == NewTask(id, user_id, body.title,
                            IF "description" \in DOMAIN body THEN body.description ELSE None,
                            t)
         IN IF RowViolates(row)
            THEN [store |-> store, resp |-> ServerErrorResponse]
            ELSE [store |-> [i \in DOMAIN store \cup {id} |->
                                IF i = id THEN row ELSE store[i]],
                  resp |-> [code |-> 201, body |-> TaskResponse(row)]]

\* PATCH /tasks/{task_id}
HttpUpdateTask(store, user_id, task_id, body, t) ==
    IF task_id = BadId
    THEN [store |-> store, resp |-> ValidationResponse(task_id, {"task_id"})]
    ELSE IF TaskUpdateErrors(body) # {}
    THEN [store |-> store, resp |-> ValidationResponse(task_id, TaskUpdateErrors(body))]
    ELSE LET r == ModelUpdateTask(store, task_id, user_id, ModelDumpUnset(body), t) IN
         CASE r.outcome = "none"  -> [store |-> store, resp |-> NotFoundResponse(task_id)]
           [] r.outcome = "fault" -> [store |-> store, resp |-> ServerErrorResponse]
           [] OTHER -> [store |-> r.store,
                        resp |-> [code |-> 200, body |-> TaskResponse(r.store[task_id])]]

\* DELETE /tasks/{task_id}
HttpDeleteTask(store, user_id, task_id) ==
    IF task_id = BadId
    THEN [store |-> store, resp |-> ValidationResponse(task_id, {"task_id"})]
    ELSE LET r == ModelDeleteTask(store, task_id, user_id) IN
         IF r.outcome = "none"
         THEN [store |-> store, resp |-> NotFoundResponse(task_id)]
         ELSE [store |-> r.store, resp |-> [code |-> 204, body |-> [empty |-> TRUE]]]

\* GET /tasks: the answers the route may give
HttpListTasks(store, user_id, p) ==
    IF ~ListParamsValid(p) THEN {ValidationResponse(BadId, {"query"})}
    ELSE {[code |-> 200, body |-> [items |-> [i \in DOMAIN q |-> TaskResponse(store[q[i]])]]] :
            q \in ListTasksResults(store, user_id, p)}

----------------------------------------------------------------------------
\* Tool-Invocation Bridge (MCP server tools), one invocation without store faults

NotFoundResult(task_id) == [error |-> "Task not found", task_id |-> task_id]

InsertRow(store, row) ==
    [i \in DOMAIN store \cup {row.id} |-> IF i = row.id THEN row ELSE store[i]]

\* the Task row add_task builds from its arguments
AddTaskRow(user_id, title, description, id, t) ==
    NewTask(id, user_id, Truncate(Strip(title)),
            IF description # <<>> THEN Strip(description) ELSE None, t)

\* if not title or not title.strip()
AddTaskRejects(title) == title = <<>> \/ Strip(title) = <<>>

ToolAddTask(store, user_id, title, description, id, t) ==
    IF AddTaskRejects(title)
    THEN [store |-> store,
          result |-> [error |-> "Failed to create task", details |-> "Title is required"]]
    ELSE LET row == AddTaskRow(user_id, title, description, id, t) IN
         IF RowViolates(row)
         THEN [store |-> store,
               result |-> [error |-> "Failed to create task", details |-> "str(e)"]]
         ELSE [store |-> InsertRow(store, row),
               result |-> [task_id |-> id, status |-> "created", title |-> row.title]]

\* one entry of the tool's task_list
ToolItem(row) ==
    [id |-> row.id, title |-> row.title,
     description |-> IF row.description = None THEN <<>> ELSE row.description,
     completed |-> (row.status = COMPLETED), created_at |-> row.created_at]

\* the rows list_tasks selects for a status argument
ToolListRows(store, user_id, status) ==
    IF status = "pending" THEN get_by_user_and_status(store, user_id, PENDING)
    ELSE IF status = "completed" THEN get_by_user_and_status(store, user_id, COMPLETED)
    ELSE get_by_user(store, user_id)

ToolListTasks(store, user_id, status) ==
    LET rows == ToolListRows(store, user_id, status) IN
    [tasks |-> {ToolItem(store[id]) : id \in rows},
     count |-> Cardinality(rows), filter |-> status]

ToolCompleteTask(store, user_id, task_id, t) ==
    IF task_id = BadId THEN [store |-> store, result |-> NotFoundResult(task_id)]
    ELSE LET r == ModelUpdateTask(store, task_id, user_id, [status |-> COMPLETED], t) IN
         CASE r.outcome = "none"  -> [store |-> store, result |-> NotFoundResult(task_id)]
           [] r.outcome = "fault" ->
                [store |-> store,
                 result |-> [error |-> "Failed to complete task", details |-> "str(e)"]]
           [] OTHER -> [store |-> r.store,
                        result |-> [task_id |-> task_id, status |-> "completed",
                                    title |-> r.store[task_id].title]]

\* delete_task reporting an unparseable id as an error class of its own
ToolDeleteTaskInvalidId(store, user_id, task_id) ==
    IF task_id = BadId
    THEN [store |-> store, result |-> [error |-> "Invalid task id", task_id |-> task_id]]
    ELSE IF SelectByIdAndUser(store, task_id, user_id) = {}
    THEN [store |-> store, result |-> NotFoundResult(task_id)]
    ELSE LET r == ModelDeleteTask(store, task_id, user_id) IN
         IF r.outcome = "none"
         THEN [store |-> store, result |-> NotFoundResult(task_id)]
         ELSE [store |-> r.store,
               result |-> [task_id |-> task_id, status |-> "deleted",
                           title |-> store[task_id].title]]

ToolDeleteTask(store, user_id, task_id) ==
    IF task_id = BadId THEN [store |-> store, result |-> NotFoundResult(task_id)]
    ELSE IF SelectByIdAndUser(store, task_id, user_id) = {}
    THEN [store |-> store, result |-> NotFoundResult(task_id)]
    ELSE LET r == ModelDeleteTask(store, task_id, user_id) IN
         IF r.outcome = "none"
         THEN [store |-> store, result |-> NotFoundResult(task_id)]
         ELSE [store |-> r.store,
               result |-> [task_id |-> task_id, status |-> "deleted",
                           title |-> store[task_id].title]]

\* the updates dict update_task builds from its title / description arguments
ToolUpdates(title, description) ==
    LET keys == (IF title # None /\ Strip(title) # <<>> THEN {"title"} ELSE {})
                \cup (IF description # None THEN {"description"} ELSE {})
    IN [f \in keys |->
          IF f = "title" THEN Truncate(Strip(title))
          ELSE IF description # <<>> THEN Strip(description) ELSE None]

\* changes.append(...) in the order the tool appends
ToolChanges(title, description) ==
    (IF title # None /\ Strip(title) # <<>> THEN <<"title">> ELSE <<>>)
    \o (IF description # None THEN <<"description">> ELSE <<>>)

ToolUpdateTask(store, user_id, task_id, title, description, t) ==
    IF title = None /\ description = None
    THEN [store |-> store,
          result |-> [error |-> "No updates provided",
                      details |-> "Specify title or description to update"]]
    ELSE IF task_id = BadId THEN [store |-> store, result |-> NotFoundResult(task_id)]
    ELSE IF DOMAIN ToolUpdates(title, description) = {}
    THEN [store |-> store, result |-> [error |-> "No valid updates provided"]]
    ELSE LET r == ModelUpdateTask(store, task_id, user_id,
                                  ToolUpdates(title, description), t) IN
         CASE r.outcome = "none"  -> [store |-> store, result |-> NotFoundResult(task_id)]
           [] r.outcome = "fault" ->
                [store |-> store,
                 result |-> [error |-> "Failed to update task", details |-> "str(e)"]]
           [] OTHER -> [store |-> r.store,
                        result |-> [task_id |-> task_id, status |-> "updated",
                                    title |-> r.store[task_id].title,
                                    changes |-> ToolChanges(title, description)]]

----------------------------------------------------------------------------
\* Requests the model issues

TitleInputs == {<<" ">>, <<"B", " ">>}

CreateBodies ==
    {[title |-> <<"a">>], [title |-> <<>>], [title |-> <<" ">>],
     [description |-> <<"a">>],
     [title |-> <<"B">>, user_id |-> "B", status |-> COMPLETED]}

PatchBodies ==
    {[status |-> COMPLETED], [status |-> "archived"],
     [title |-> <<>>], [title |-> None],
     [description |-> <<"a">>],
     [title |-> <<"a">>, status |-> PENDING, user_id |-> "B", id |-> MaxTasks + 1,
      created_at |-> MaxClock + 1]}

\* updates dicts handed to Task.update_task by a direct caller
DirectUpdates ==
    {[id |-> MaxTasks + 1, user_id |-> "B", title |-> <<"B">>],
     [user_id |-> "A", created_at |-> MaxClock + 1, status |-> COMPLETED]}

\* (title, description) arguments of the update tool
ToolUpdateInputs ==
    {<<None, None>>, <<<<" ">>, None>>, <<<<"B", " ">>, None>>, <<None, <<>>>>}

DefaultQuery ==
    [offset |-> 0, limit |-> DEFAULT_LIMIT, status |-> "None", search |-> None,
     sort |-> "created_at", order |-> "desc"]

ListQueries ==
    {DefaultQuery,
     [DefaultQuery EXCEPT !.status = COMPLETED, !.search = <<"b">>],
     [DefaultQuery EXCEPT !.sort = "title", !.order = "asc", !.offset = 1, !.limit = 1],
     [DefaultQuery EXCEPT !.limit = 0]}

----------------------------------------------------------------------------
\* Atomic handlers: one action per HTTP route and per tool invocation

NoResp == [op |-> "none", user |-> "None", id |-> BadId, extra |-> {}, valid |-> TRUE,
           code |-> 0, body |-> [empty |-> TRUE]]

\* what the model remembers of the last request and its answer: the route or
\* tool, the caller, the task id, the keys of the request outside the updatable
\* fields, whether the request passed validation, and the answer itself
Answer(op, user_id, task_id, extra, valid, r) ==
    [op |-> op, user |-> user_id, id |-> task_id, extra |-> extra, valid |-> valid,
     code |-> r.code, body |-> r.body]

ToolAnswer(op, user_id, task_id, extra, valid, result) ==
    [op |-> op, user |-> user_id, id |-> task_id, extra |-> extra, valid |-> valid,
     code |-> 0, body |-> result]

AuthUnused == /\ settings = "unused" /\ credential = "unused" /\ authOut = "unused"

BridgeUnused == inv = <<>>

LegacyUnused == /\ runs = <<>> /\ ctx = "unused"

AccountsUnused == /\ users = <<>> /\ conversations = <<>>

Init ==
    /\ tasks = <<>>
    /\ nextId = 1
    /\ now = 0
    /\ resp = NoResp
    /\ AuthUnused /\ BridgeUnused /\ LegacyUnused /\ AccountsUnused

\* the database clock advances
Tick ==
    /\ resp = NoResp
    /\ now < MaxClock
    /\ now' = now + 1
    /\ UNCHANGED <<tasks, nextId, resp, settings, credential, authOut, inv, runs, ctx,
                   users, conversations>>

others == <<settings, credential, authOut, inv, runs, ctx, users, conversations>>

list_tasks(u, p) ==
    /\ resp = NoResp
    /\ \E r \in HttpListTasks(tasks, u, p) : resp' = Answer("list", u, BadId, {}, ListParamsValid(p), r)
    /\ UNCHANGED <<tasks, nextId, now, others>>

create_task(u, body) ==
    /\ resp = NoResp
    /\ nextId <= MaxTasks
    /\ LET r == HttpCreateTask(tasks, u, body, nextId, now) IN
       /\ tasks' = r.store
       /\ nextId' = IF r.resp.code = 201 THEN nextId + 1 ELSE nextId
       /\ resp' = Answer("create", u, BadId, DOMAIN body \ {"title", "description"},
                       TaskCreateErrors(body) = {}, r.resp)
    /\ UNCHANGED <<now, others>>

get_task(u, id) ==
    /\ resp = NoResp
    /\ resp' = Answer("get", u, id, {}, id # BadId, HttpGetTask(tasks, u, id))
    /\ UNCHANGED <<tasks, nextId, now, others>>

update_task(u, id, body) ==
    /\ resp = NoResp
    /\ LET r == HttpUpdateTask(tasks, u, id, body, now) IN
       /\ tasks' = r.store
       /\ resp' = Answer("update", u, id, DOMAIN body \ TaskUpdateFields,
                       id # BadId /\ TaskUpdateErrors(body) = {}, r.resp)
    /\ UNCHANGED <<nextId, now, others>>

delete_task(u, id) ==
    /\ resp = NoResp
    /\ LET r == HttpDeleteTask(tasks, u, id) IN
       /\ tasks' = r.store
       /\ resp' = Answer("delete", u, id, {}, id # BadId, r.resp)
    /\ UNCHANGED <<nextId, now, others>>

\* Task.update_task called with an arbitrary updates dict, then committed
call_update_task(u, id, updates) ==
    /\ resp = NoResp
    /\ LET r == ModelUpdateTask(tasks, id, u, updates, now) IN
       /\ tasks' = r.store
       /\ resp' = ToolAnswer("model_update", u, id, DOMAIN updates \ allowed_fields, TRUE,
                          [outcome |-> r.outcome])
    /\ UNCHANGED <<nextId, now, others>>

tool_add_task(u, title, description) ==
    /\ resp = NoResp
    /\ nextId <= MaxTasks
    /\ LET r == ToolAddTask(tasks, u, title, description, nextId, now) IN
       /\ tasks' = r.store
       /\ nextId' = IF "task_id" \in DOMAIN r.result THEN nextId + 1 ELSE nextId
       /\ resp' = ToolAnswer("tool_add", u, BadId, {}, ~AddTaskRejects(title), r.result)
    /\ UNCHANGED <<now, others>>

tool_list_tasks(u, status) ==
    /\ resp = NoResp
    /\ resp' = ToolAnswer("tool_list", u, BadId, {}, TRUE, ToolListTasks(tasks, u, status))
    /\ UNCHANGED <<tasks, nextId, now, others>>

tool_complete_task(u, id) ==
    /\ resp = NoResp
    /\ LET r == ToolCompleteTask(tasks, u, id, now) IN
       /\ tasks' = r.store
       /\ resp' = ToolAnswer("tool_complete", u, id, {}, id # BadId, r.result)
    /\ UNCHANGED <<nextId, now, others>>

tool_delete_task(u, id) ==
    /\ resp = NoResp
    /\ LET r == ToolDeleteTask(tasks, u, id) IN
       /\ tasks' = r.store
       /\ resp' = ToolAnswer("tool_delete", u, id, {}, id # BadId, r.result)
    /\ UNCHANGED <<nextId, now, others>>

tool_update_task(u, id, title, description) ==
    /\ resp = NoResp
    /\ LET r == ToolUpdateTask(tasks, u, id, title, description, now) IN
       /\ tasks' = r.store
       /\ resp' = ToolAnswer("tool_update", u, id, {},
                           id # BadId /\ DOMAIN ToolUpdates(title, description) # {},
                           r.result)
    /\ UNCHANGED <<nextId, now, others>>

\* the answer is sent to the caller; the next request is then served
Deliver ==
    /\ resp # NoResp
    /\ resp' = NoResp
    /\ UNCHANGED <<tasks, nextId, now, others>>

IdInputs == TaskIds \cup {BadId}

Next ==
    \/ Tick
    \/ Deliver
    \/ \E u \in Owners, p \in ListQueries : list_tasks(u, p)
    \/ \E u \in Owners, body \in CreateBodies : create_task(u, body)
    \/ \E u \in Owners, id \in IdInputs : get_task(u, id)
    \/ \E u \in Owners, id \in IdInputs, body \in PatchBodies : update_task(u, id, body)
    \/ \E u \in Owners, id \in IdInputs : delete_task(u, id)
    \/ \E u \in Owners, id \in TaskIds, updates \in DirectUpdates :
          call_update_task(u, id, updates)
    \/ \E u \in Owners, title \in TitleInputs : tool_add_task(u, title, <<>>)
    \/ \E u \in Owners, status \in {"all", "pending", "completed"} : tool_list_tasks(u, status)
    \/ \E u \in Owners, id \in IdInputs : tool_complete_task(u, id)
    \/ \E u \in Owners, id \in IdInputs : tool_delete_task(u, id)
    \/ \E u \in Owners, id \in IdInputs, a \in ToolUpdateInputs :
          tool_update_task(u, id, a[1], a[2])

Spec == Init /\ [][Next]_vars

----------------------------------------------------------------------------
\* Claims on the task store and its routes (specification Spec)

ReadOps == {"list", "get", "tool_list"}

WriteByIdOps == {"update", "delete", "model_update", "tool_complete", "tool_delete",
                 "tool_update"}

\* ids of the tasks an answer carries
ReturnedIds(r) ==
    CASE r.op = "list" /\ r.code = 200 -> {r.body.items[i].id : i \in DOMAIN r.body.items}
      [] r.op = "get" /\ r.code = 200 -> {r.body.id}
      [] r.op = "tool_list" -> {item.id : item \in r.body.tasks}
      [] OTHER -> {}

\* C1: every task returned by a list, get or search (HTTP route or tool) asked
\* by an owner is a stored task of that owner, whatever create, update, delete
\* and read operations of any owner came before
C1_ReadsReturnOnlyOwnedTasks ==
    resp.op \in ReadOps =>
        /\ \A id \in ReturnedIds(resp) : id \in DOMAIN tasks /\ tasks[id].user_id = resp.user
        /\ resp.op = "list" /\ resp.code = 200 =>
              \A i \in DOMAIN resp.body.items : resp.body.items[i].user_id = resp.user
        /\ resp.op = "get" /\ resp.code = 200 => resp.body.user_id = resp.user

\* an owner has read (list, search or tool list) while another owner has a task
C1_Witness ==
    /\ resp.op \in {"list", "tool_list"}
    /\ resp.valid
    /\ \E id \in DOMAIN tasks : tasks[id].user_id # resp.user

\* the not-found outcome of a write by id
IsNotFound(r) ==
    CASE r.op \in {"update", "delete"} -> r.code = 404 /\ r.body = NotFoundResponse(r.id).body
      [] r.op = "model_update" -> r.body.outcome = "none"
      [] OTHER -> r.body = NotFoundResult(r.id)

\* C2: a well-formed update or delete (HTTP route, tool, Task.update_task) by an
\* owner against the id of another owner's task gets the not-found outcome, and
\* no request against another owner's task, well-formed or not, changes the store
C2_ForeignWriteIsNotFound ==
    [][(/\ resp = NoResp
        /\ resp'.op \in WriteByIdOps
        /\ resp'.id \in DOMAIN tasks
        /\ tasks[resp'.id].user_id # resp'.user)
       => /\ tasks' = tasks
          /\ resp'.valid => IsNotFound(resp')
          /\ resp'.code \notin {200, 204, 403}]_vars

\* a well-formed update or delete was attempted on another owner's task
C2_Witness ==
    /\ resp.op \in WriteByIdOps
    /\ resp.valid
    /\ resp.id \in DOMAIN tasks
    /\ tasks[resp.id].user_id # resp.user

\* the store as it would be without the tasks of the other owners
OwnView(store, user_id) == [id \in get_by_user(store, user_id) |-> store[id]]

\* C3: the answer to get, update and delete by id (HTTP routes and tools) is the
\* one the caller would get from the store without the other owners' tasks:
\* stores that differ only in tasks of other owners give identical answers
\* (every reachable store is visited between two requests, where the answers
\* of all requests are compared; the answer actually given to a get is compared
\* as well)
C3_AnswersIgnoreOtherOwners ==
    /\ resp = NoResp => \A u \in Owners, id \in IdInputs :
          /\ HttpGetTask(tasks, u, id) = HttpGetTask(OwnView(tasks, u), u, id)
          /\ HttpDeleteTask(tasks, u, id).resp = HttpDeleteTask(OwnView(tasks, u), u, id).resp
          /\ ToolDeleteTask(tasks, u, id).result = ToolDeleteTask(OwnView(tasks, u), u, id).result
          /\ ToolCompleteTask(tasks, u, id, now).result
                = ToolCompleteTask(OwnView(tasks, u), u, id, now).result
          /\ \A body \in PatchBodies :
                HttpUpdateTask(tasks, u, id, body, now).resp
                   = HttpUpdateTask(OwnView(tasks, u), u, id, body, now).resp
          /\ \A a \in ToolUpdateInputs :
                ToolUpdateTask(tasks, u, id, a[1], a[2], now).result
                   = ToolUpdateTask(OwnView(tasks, u), u, id, a[1], a[2], now).result
    /\ resp.op = "get" =>
          [code |-> resp.code, body |-> resp.body]
             = HttpGetTask(OwnView(tasks, resp.user), resp.user, resp.id)

\* an owner asked for the id of another owner's task and was answered 404
C3_Witness ==
    /\ resp.op = "get"
    /\ resp.code = 404
    /\ resp.id \in DOMAIN tasks
    /\ tasks[resp.id].user_id # resp.user

\* C10: no step changes the identifier, the owner or the creation time of a
\* stored task, whatever keys an update carries; a task's identifier is the one
\* it is stored under and identifiers are never handed out twice
C10_UpdateKeepsIdentity ==
    /\ [](\A id \in DOMAIN tasks : tasks[id].id = id /\ id < nextId)
    /\ [][\A id \in DOMAIN tasks \cap DOMAIN tasks' :
             /\ tasks'[id].id = tasks[id].id
             /\ tasks'[id].user_id = tasks[id].user_id
             /\ tasks'[id].created_at = tasks[id].created_at]_vars

\* an update that carried keys other than title, description and status was applied
C10_Witness ==
    /\ resp.op \in {"update", "model_update"}
    /\ resp.extra # {}
    /\ resp.id \in DOMAIN tasks
    /\ (resp.code = 200 \/ (resp.op = "model_update" /\ resp.body.outcome = "ok"))

----------------------------------------------------------------------------
\* Authentication of a request (specification SpecAuth)

\* Settings(): the secrets are "" when their environment variable is not set;
\* the constructor refuses production without JWT_SECRET
JwtSecrets == {"", "k1"}

BetterAuthSecrets == {"", "k1", "k2"}

SettingsSet ==
    {s \in [environment : {"development", "production"},
            jwt_secret : JwtSecrets,
            better_auth_secret : BetterAuthSecrets,
            auth_migration_enabled : BOOLEAN,
            enable_legacy_tokens : BOOLEAN] :
        ~(s.jwt_secret = "" /\ s.environment = "production")}

is_legacy_token_allowed(s) == s.enable_legacy_tokens

\* a bearer token: either not a JWT at all, or a JWT signed with some key,
\* expired or not, with or without the iss and sub claims
GarbageToken ==
    [wellformed |-> FALSE, key |-> "", expired |-> FALSE, iss |-> "None", sub |-> "None"]

Tokens ==
    {GarbageToken} \cup
    [wellformed : {TRUE}, key : {"", "k1", "k2", "k3"}, expired : BOOLEAN,
     iss : {"better-auth", "None"}, sub : {"A", "None"}]

\* the Authorization header, as the words str.split() finds in it
AbsentHeader == [present |-> FALSE, words |-> <<>>]

Header(words) == [present |-> TRUE, words |-> words]

Headers ==
    {AbsentHeader, Header(<<>>), Header(<<"Bearer">>),
     Header(<<"Basic", GarbageToken>>)}
    \cup {Header(<<"Bearer", t>>) : t \in Tokens}
    \cup {Header(<<"bearer", t>>) : t \in {GarbageToken}}
    \cup {Header(<<"Bearer", t, "x">>) : t \in {GarbageToken}}

LowerWord(w) == IF w \in {"Bearer", "BEARER", "bearer"} THEN "bearer" ELSE "basic"

\* _extract_token
ExtractToken(authorization) ==
    IF ~authorization.present \/ authorization.words = <<>>
    THEN [raised |-> TRUE, detail |-> "Missing Authorization header", token |-> GarbageToken]
    ELSE IF Len(authorization.words) # 2 \/ LowerWord(authorization.words[1]) # "bearer"
    THEN [raised |-> TRUE, detail |-> "Invalid Authorization header format",
          token |-> GarbageToken]
    ELSE [raised |-> FALSE, detail |-> "", token |-> authorization.words[2]]

\* jose.jwt.decode(token, key, algorithms, issuer): structure, then signature,
\* then the exp claim, then the iss claim
JwtDecode(token, key, issuer) ==
    IF ~token.wellformed THEN "JWTError"
    ELSE IF token.key # key THEN "JWTError"
    ELSE IF token.expired THEN "ExpiredSignatureError"
    ELSE IF issuer # "None" /\ token.iss # issuer THEN "JWTClaimsError"
    ELSE "ok"

\* jose.jwt.get_unverified_claims(token)
GetUnverifiedClaims(token) == IF token.wellformed THEN "ok" ELSE "JWTError"

Authenticated(user_id, tried) ==
    [pc |-> "done", tried |-> tried, outcome |-> "user", user |-> user_id,
     code |-> 0, detail |-> ""]

\* raise AuthenticationError(detail), answered by authentication_error_handler
AuthenticationError(detail, tried) ==
    [pc |-> "done", tried |-> tried, outcome |-> "AuthenticationError", user |-> "None",
     code |-> 401, detail |-> detail]

\* a _decode_token that verifies nothing whatever the configuration
DecodeTokenUnverified(token, s) == GetUnverifiedClaims(token)

\* _decode_token: "ok" when it returns the payload, else the error it turns
\* into an AuthenticationError
DecodeToken(token, s) ==
    IF s.jwt_secret = ""
    THEN IF s.environment = "production" THEN "JWT configuration error"
         ELSE GetUnverifiedClaims(token)
    ELSE JwtDecode(token, s.jwt_secret, "None")

DecodeDetail(e) ==
    CASE e = "ExpiredSignatureError" -> "Token has expired"
      [] e = "JWT configuration error" -> e
      [] OTHER -> "Invalid token"

\* get_current_user after _extract_token
GetCurrentUser(token, s) ==
    LET e == DecodeToken(token, s) IN
    IF e # "ok" THEN AuthenticationError(DecodeDetail(e), <<"legacy">>)
    ELSE IF token.sub = "None"
         THEN AuthenticationError("Token missing 'sub' claim", <<"legacy">>)
         ELSE Authenticated(token.sub, <<"legacy">>)

\* a legacy attempt made whether or not legacy tokens are allowed
DualLegacyAlways(token, s, out) ==
    IF JwtDecode(token, s.jwt_secret, "None") = "ok" /\ token.sub # "None"
    THEN Authenticated(token.sub, Append(out.tried, "legacy"))
    ELSE [out EXCEPT !.pc = "better_auth", !.tried = Append(out.tried, "legacy")]

\* get_current_user_dual, the legacy attempt
DualLegacy(token, s, out) ==
    IF is_legacy_token_allowed(s)
    THEN IF JwtDecode(token, s.jwt_secret, "None") = "ok" /\ token.sub # "None"
         THEN Authenticated(token.sub, Append(out.tried, "legacy"))
         ELSE [out EXCEPT !.pc = "better_auth", !.tried = Append(out.tried, "legacy")]
    ELSE [out EXCEPT !.pc = "better_auth"]

\* get_current_user_dual, the Better Auth attempt
DualBetterAuth(token, s, out) ==
    LET tried == Append(out.tried, "better_auth") IN
    IF s.better_auth_secret = "" THEN AuthenticationError("Better Auth not configured", tried)
    ELSE IF JwtDecode(token, s.better_auth_secret, "better-auth") # "ok"
         THEN AuthenticationError("Invalid or expired token", tried)
         ELSE IF token.sub # "None" THEN Authenticated(token.sub, tried)
              ELSE AuthenticationError("Token missing 'sub' claim", tried)

AuthIdle ==
    [pc |-> "idle", tried |-> <<>>, outcome |-> "none", user |-> "None", code |-> 0,
     detail |-> ""]

StoreUnused == /\ tasks = <<>> /\ nextId = 1 /\ now = 0 /\ resp = NoResp

InitAuth ==
    /\ settings \in SettingsSet
    /\ credential = AbsentHeader
    /\ authOut = AuthIdle
    /\ StoreUnused /\ BridgeUnused /\ LegacyUnused /\ AccountsUnused

notAuth == <<tasks, nextId, now, resp, inv, runs, ctx, users, conversations>>

\* a request arrives with an Authorization header
auth_request(h) ==
    /\ authOut.pc = "idle"
    /\ credential' = h
    /\ authOut' = [AuthIdle EXCEPT !.pc = "extract"]
    /\ UNCHANGED <<settings, notAuth>>

\* _extract_token, and get_current_user_with_state choosing the validation
extract_token ==
    /\ authOut.pc = "extract"
    /\ LET r == ExtractToken(credential) IN
       authOut' = IF r.raised THEN AuthenticationError(r.detail, <<>>)
                  ELSE [authOut EXCEPT !.pc = IF settings.auth_migration_enabled
                                                 THEN "dual" ELSE "legacy_only"]
    /\ UNCHANGED <<settings, credential, notAuth>>

get_current_user ==
    /\ authOut.pc = "legacy_only"
    /\ authOut' = GetCurrentUser(ExtractToken(credential).token, settings)
    /\ UNCHANGED <<settings, credential, notAuth>>

dual_legacy ==
    /\ authOut.pc = "dual"
    /\ authOut' = DualLegacy(ExtractToken(credential).token, settings, authOut)
    /\ UNCHANGED <<settings, credential, notAuth>>

dual_better_auth ==
    /\ authOut.pc = "better_auth"
    /\ authOut' = DualBetterAuth(ExtractToken(credential).token, settings, authOut)
    /\ UNCHANGED <<settings, credential, notAuth>>

\* the request is answered (401) or handed to the route with its user id
auth_done ==
    /\ authOut.pc = "done"
    /\ authOut' = AuthIdle
    /\ credential' = AbsentHeader
    /\ UNCHANGED <<settings, notAuth>>

NextAuth ==
    \/ \E h \in Headers : auth_request(h)
    \/ extract_token
    \/ get_current_user
    \/ dual_legacy
    \/ dual_better_auth
    \/ auth_done

SpecAuth == InitAuth /\ [][NextAuth]_vars

----------------------------------------------------------------------------
\* Claims on authentication (specification SpecAuth)

BearerForm(h) == h.present /\ Len(h.words) = 2 /\ LowerWord(h.words[1]) = "bearer"

BearerToken(h) == IF BearerForm(h) THEN h.words[2] ELSE GarbageToken

DualMode(s) == s.auth_migration_enabled

\* the secrets of the verifications the configuration permits
PermittedKeys(s) ==
    (IF ~DualMode(s) \/ is_legacy_token_allowed(s) THEN {s.jwt_secret} ELSE {})
    \cup (IF DualMode(s) /\ s.better_auth_secret # "" THEN {s.better_auth_secret} ELSE {})

\* no header, no Bearer form, a token that is no JWT, or no subject claim
Unusable(h) ==
    \/ ~BearerForm(h)
    \/ ~BearerToken(h).wellformed
    \/ BearerToken(h).sub = "None"

\* a signature no permitted verification accepts, or an expired token
Unverifiable(h, s) ==
    /\ BearerForm(h)
    /\ \/ BearerToken(h).key \notin PermittedKeys(s)
       \/ BearerToken(h).expired

Rejected401 ==
    /\ authOut.outcome = "AuthenticationError"
    /\ authOut.code = 401
    /\ authOut.user = "None"

\* C4 as stated: under every configuration a request with an unusable header,
\* an invalid signature or an expired token is answered 401
C4_EveryConfigurationRejects ==
    (authOut.pc = "done" /\ (Unusable(credential) \/ Unverifiable(credential, settings)))
       => Rejected401

\* C4, amended: with a JWT secret set, or in dual mode, every such request is
\* answered 401; in legacy-only mode without a JWT secret the token is decoded
\* unverified, and absent or malformed headers, undecodable tokens and tokens
\* without subject are still answered 401; no request is answered otherwise
\* than by 401 or by its authenticated user
C4_ConfiguredSecretRejects ==
    authOut.pc = "done" =>
        /\ (settings.jwt_secret # "" \/ DualMode(settings)) =>
              ((Unusable(credential) \/ Unverifiable(credential, settings)) => Rejected401)
        /\ Unusable(credential) => Rejected401
        /\ Rejected401 \/ (authOut.outcome = "user" /\ authOut.user = BearerToken(credential).sub)

\* legacy-only mode with a secret: an expired token with a good signature and a
\* subject was rejected
C4_Witness ==
    /\ authOut.pc = "done"
    /\ ~DualMode(settings)
    /\ settings.jwt_secret # ""
    /\ BearerForm(credential)
    /\ BearerToken(credential).wellformed
    /\ BearerToken(credential).key = settings.jwt_secret
    /\ BearerToken(credential).expired
    /\ BearerToken(credential).sub # "None"
    /\ Rejected401

\* signature and expiry pass under the legacy secret
LegacyVerifies(t, s) == t.wellformed /\ t.key = s.jwt_secret /\ ~t.expired

\* signature, expiry and issuer pass under the Better Auth secret
CurrentVerifies(t, s) ==
    /\ s.better_auth_secret # ""
    /\ t.wellformed /\ t.key = s.better_auth_secret /\ ~t.expired
    /\ t.iss = "better-auth"

\* C5: in dual mode the legacy verification comes first and only when legacy
\* tokens are permitted; when it fails by signature, expiry or decoding the
\* second verification follows; when it yields a user no second verification
\* is made; the request is authenticated as the token's subject when one of the
\* two verifications yields it and is rejected exactly when neither does
C5_DualOrderAndOutcome ==
    (authOut.pc = "done" /\ DualMode(settings) /\ BearerForm(credential)) =>
        LET t == BearerToken(credential)
            s == settings
            legacyOk == is_legacy_token_allowed(s) /\ LegacyVerifies(t, s) /\ t.sub # "None"
            currentOk == CurrentVerifies(t, s) /\ t.sub # "None"
        IN /\ ~is_legacy_token_allowed(s) => authOut.tried = <<"better_auth">>
           /\ is_legacy_token_allowed(s) => authOut.tried[1] = "legacy"
           /\ legacyOk => authOut.tried = <<"legacy">>
           /\ (is_legacy_token_allowed(s) /\ ~LegacyVerifies(t, s))
                 => authOut.tried = <<"legacy", "better_auth">>
           /\ (legacyOk \/ currentOk) => (authOut.outcome = "user" /\ authOut.user = t.sub)
           /\ ~(legacyOk \/ currentOk) => Rejected401

\* the legacy verification failed and the second verification authenticated
C5_Witness ==
    /\ authOut.pc = "done"
    /\ DualMode(settings)
    /\ authOut.tried = <<"legacy", "better_auth">>
    /\ authOut.outcome = "user"

\* C6 as stated: in dual mode a token that passes the legacy signature and
\* expiry verification but has no subject is rejected at once, and the second
\* verification is never made
C6_MissingSubjectIsHardFailure ==
    (/\ authOut.pc \in {"better_auth", "done"}
     /\ DualMode(settings)
     /\ is_legacy_token_allowed(settings)
     /\ BearerForm(credential)
     /\ LegacyVerifies(BearerToken(credential), settings)
     /\ BearerToken(credential).sub = "None")
    => (Rejected401 /\ authOut.tried = <<"legacy">>)

----------------------------------------------------------------------------
\* Sessions of tool invocations and HTTP requests, step by step and with store
\* faults (specification SpecBridge)

Invocations == {"i1", "i2"}

\* the uncommitted changes of a session
NoDelta == [del |-> {}, ins |-> <<>>, upd |-> <<>>]

\* a flush that writes every column of a modified row
DeltaWholeRow(old, new) ==
    [del |-> DOMAIN old \ DOMAIN new,
     ins |-> [id \in DOMAIN new \ DOMAIN old |-> new[id]],
     upd |-> [id \in {j \in DOMAIN new \cap DOMAIN old : new[j] # old[j]} |-> new[id]]]

\* what the session's flush sends: DELETEs, INSERTs, and for a modified row an
\* UPDATE that sets the columns whose value changed and no others
Delta(old, new) ==
    [del |-> DOMAIN old \ DOMAIN new,
     ins |-> [id \in DOMAIN new \ DOMAIN old |-> new[id]],
     upd |-> [id \in {j \in DOMAIN new \cap DOMAIN old : new[j] # old[j]} |->
                [f \in {g \in DOMAIN new[id] : new[id][g] # old[id][g]} |-> new[id][f]]]]

\* COMMIT: deletes, updates of rows still there (the columns the UPDATE sets,
\* on the row as it is by then), inserts
ApplyDelta(store, d) ==
    [id \in ((DOMAIN store \ d.del) \cup DOMAIN d.ins) |->
        IF id \in DOMAIN d.ins THEN d.ins[id]
        ELSE IF id \in DOMAIN d.upd
             THEN [f \in DOMAIN store[id] |->
                     IF f \in DOMAIN d.upd[id] THEN d.upd[id][f] ELSE store[id][f]]
        ELSE store[id]]

NoCall ==
    [op |-> "none", user_id |-> "None", task_id |-> BadId, title |-> None,
     description |-> None, body |-> <<>>]

ToolCall(op, user_id, task_id, title, description) ==
    [op |-> op, user_id |-> user_id, task_id |-> task_id, title |-> title,
     description |-> description, body |-> <<>>]

HttpCall(op, user_id, task_id, body) ==
    [op |-> op, user_id |-> user_id, task_id |-> task_id, title |-> None,
     description |-> None, body |-> body]

ToolOps == {"add_task", "list_tasks", "complete_task", "delete_task", "update_task"}

HttpOps == {"create", "list", "get", "update", "delete"}

ToolCalls ==
    {ToolCall("add_task", "A", BadId, t, <<>>) : t \in TitleInputs}
    \cup {ToolCall("list_tasks", "A", BadId, None, None)}
    \cup {ToolCall(op, "A", id, None, None) :
             op \in {"complete_task", "delete_task"}, id \in {BadId, 1}}
    \cup {ToolCall("update_task", "A", 1, a[1], a[2]) : a \in ToolUpdateInputs}
    \cup {ToolCall("update_task", "A", BadId, <<"B", " ">>, None)}

HttpCalls ==
    {HttpCall("create", "A", BadId, b) : b \in {[title |-> <<"a">>], [title |-> <<>>]}}
    \cup {HttpCall("list", "A", BadId, <<>>)}
    \cup {HttpCall(op, "A", 1, <<>>) : op \in {"get", "delete"}}
    \cup {HttpCall("update", "A", 1, b) : b \in {[status |-> COMPLETED], [title |-> <<>>]}}

\* the body of a tool between acquiring the session and commit
RunTool(store, c, id, t) ==
    CASE c.op = "add_task" ->
           ToolAddTask(store, c.user_id, c.title, c.description, id, t)
      [] c.op = "list_tasks" ->
           [store |-> store, result |-> ToolListTasks(store, c.user_id, "all")]
      [] c.op = "complete_task" -> ToolCompleteTask(store, c.user_id, c.task_id, t)
      [] c.op = "delete_task" -> ToolDeleteTask(store, c.user_id, c.task_id)
      [] OTHER -> ToolUpdateTask(store, c.user_id, c.task_id, c.title, c.description, t)

\* the returns a tool makes before it asks for a session
EarlyReturn(c) ==
    CASE c.op = "add_task" -> AddTaskRejects(c.title)
      [] c.op \in {"complete_task", "delete_task"} -> c.task_id = BadId
      [] c.op = "update_task" ->
           (c.title = None /\ c.description = None) \/ c.task_id = BadId
      [] OTHER -> FALSE

\* except Exception as e: return {"error": ..., "details": str(e)}
FailureResult(op) ==
    [error |-> CASE op = "add_task" -> "Failed to create task"
                 [] op = "list_tasks" -> "Failed to list tasks"
                 [] op = "complete_task" -> "Failed to complete task"
                 [] op = "delete_task" -> "Failed to delete task"
                 [] OTHER -> "Failed to update task",
     details |-> "str(e)"]

IsFailure(result) ==
    /\ "details" \in DOMAIN result
    /\ result.details = "str(e)"

\* the routes' answers, list_tasks in any order its sort permits
RouteAnswers(store, c, id, t) ==
    CASE c.op = "create" -> {HttpCreateTask(store, c.user_id, c.body, id, t)}
      [] c.op = "list" ->
           {[store |-> store, resp |-> r] : r \in HttpListTasks(store, c.user_id, DefaultQuery)}
      [] c.op = "get" -> {[store |-> store, resp |-> HttpGetTask(store, c.user_id, c.task_id)]}
      [] c.op = "update" -> {HttpUpdateTask(store, c.user_id, c.task_id, c.body, t)}
      [] OTHER -> {HttpDeleteTask(store, c.user_id, c.task_id)}

NoOut == [kind |-> "none", value |-> [empty |-> TRUE]]

Returns(value) == [kind |-> "return", value |-> value]

Raises(what) == [kind |-> "raise", value |-> [exception |-> what]]

IdleSlot == [call |-> NoCall, pc |-> "idle", sess |-> "none", pending |-> NoDelta, out |-> NoOut]

\* session.close() in a finally block that is reached only without an exception
CloseSessionOnSuccess(slot, fault) ==
    IF slot.out.kind = "return" /\ ~IsFailure(slot.out.value)
    THEN [slot EXCEPT !.sess = "closed", !.pending = NoDelta, !.pc = "done",
                      !.out = IF fault THEN Raises("close") ELSE slot.out]
    ELSE [slot EXCEPT !.pc = "done"]

\* finally: await session.close(), and the exit of async with in get_session:
\* the session is released and what it had not committed is discarded; a
\* failing close takes the place of the result
CloseSession(slot, fault) ==
    [slot EXCEPT !.sess = "closed", !.pending = NoDelta, !.pc = "done",
                 !.out = IF fault THEN Raises("close") ELSE slot.out]

InitBridge ==
    /\ StoreUnused
    /\ inv = [i \in Invocations |-> IdleSlot]
    /\ AuthUnused /\ LegacyUnused /\ AccountsUnused

notBridge == <<now, resp, settings, credential, authOut, runs, ctx, users, conversations>>

\* inserts that have started and have not yet taken their identifier
InsertsAhead ==
    Cardinality({i \in Invocations :
        /\ inv[i].call.op \in {"add_task", "create"}
        /\ inv[i].pc \in {"acquire", "body", "session", "route"}})

\* the agent invokes a tool
tool_start(i, c) ==
    /\ inv[i].pc = "idle"
    /\ c.op = "add_task" => nextId + InsertsAhead <= MaxTasks
    /\ inv' = [inv EXCEPT ![i] =
          IF EarlyReturn(c)
          THEN [IdleSlot EXCEPT !.call = c, !.pc = "done",
                                !.out = Returns(RunTool(tasks, c, nextId, now).result)]
          ELSE [IdleSlot EXCEPT !.call = c, !.pc = "acquire"]]
    /\ UNCHANGED <<tasks, nextId, notBridge>>

\* session = await get_db_session(), before the try block
tool_acquire(i) ==
    /\ inv[i].pc = "acquire"
    /\ inv[i].call.op \in ToolOps
    /\ \E fault \in BOOLEAN :
          inv' = [inv EXCEPT ![i] =
             IF fault THEN [@ EXCEPT !.pc = "done", !.out = Raises("get_db_session")]
             ELSE [@ EXCEPT !.pc = "body", !.sess = "open"]]
    /\ UNCHANGED <<tasks, nextId, notBridge>>

\* the try block up to commit: queries and flushes in the tool's own session
tool_body(i) ==
    /\ inv[i].pc = "body"
    /\ LET c == inv[i].call
           r == RunTool(tasks, c, nextId, now)
       IN \E fault \in BOOLEAN :
          /\ inv' = [inv EXCEPT ![i] =
                IF fault \/ IsFailure(r.result) THEN [@ EXCEPT !.pc = "except"]
                ELSE IF "error" \in DOMAIN r.result \/ c.op = "list_tasks"
                THEN [@ EXCEPT !.pc = "finally", !.out = Returns(r.result)]
                ELSE [@ EXCEPT !.pc = "commit", !.pending = Delta(tasks, r.store),
                               !.out = Returns(r.result)]]
          /\ nextId' = IF c.op = "add_task" THEN nextId + 1 ELSE nextId
    /\ UNCHANGED <<tasks, notBridge>>

\* await session.commit(), and add_task's refresh after it
tool_commit(i) ==
    /\ inv[i].pc = "commit"
    /\ \E fault \in {"none", "commit", "refresh"} :
          /\ fault = "refresh" => inv[i].call.op = "add_task"
          /\ tasks' = IF fault = "commit" THEN tasks ELSE ApplyDelta(tasks, inv[i].pending)
          /\ inv' = [inv EXCEPT ![i] =
                CASE fault = "commit" -> [@ EXCEPT !.pc = "except", !.out = NoOut]
                  [] fault = "refresh" ->
                       [@ EXCEPT !.pc = "except", !.out = NoOut, !.pending = NoDelta]
                  [] OTHER -> [@ EXCEPT !.pc = "finally", !.pending = NoDelta]]
    /\ UNCHANGED <<nextId, notBridge>>

\* except Exception: await session.rollback() (list_tasks does not roll back)
\* and return the error object
tool_except(i) ==
    /\ inv[i].pc = "except"
    /\ \E fault \in BOOLEAN :
          /\ fault => inv[i].call.op # "list_tasks"
          /\ inv' = [inv EXCEPT ![i] =
                IF fault THEN [@ EXCEPT !.pc = "finally", !.out = Raises("rollback")]
                ELSE [@ EXCEPT !.pc = "finally", !.pending = NoDelta,
                               !.out = Returns(FailureResult(inv[i].call.op))]]
    /\ UNCHANGED <<tasks, nextId, notBridge>>

\* finally: await session.close()
tool_finally(i) ==
    /\ inv[i].pc = "finally"
    /\ \E fault \in BOOLEAN : inv' = [inv EXCEPT ![i] = CloseSession(@, fault)]
    /\ UNCHANGED <<tasks, nextId, notBridge>>

\* a request reaches a task route
http_start(i, c) ==
    /\ inv[i].pc = "idle"
    /\ c.op = "create" => nextId + InsertsAhead <= MaxTasks
    /\ inv' = [inv EXCEPT ![i] = [IdleSlot EXCEPT !.call = c, !.pc = "session"]]
    /\ UNCHANGED <<tasks, nextId, notBridge>>

\* get_session: async with session_factory() as session
http_get_session(i) ==
    /\ inv[i].pc = "session"
    /\ \E fault \in BOOLEAN :
          inv' = [inv EXCEPT ![i] =
             IF fault THEN [@ EXCEPT !.pc = "done", !.out = Returns(ServerErrorResponse)]
             ELSE [@ EXCEPT !.pc = "route", !.sess = "open"]]
    /\ UNCHANGED <<tasks, nextId, notBridge>>

\* the route up to db.commit(): validation, queries, flush
http_route(i) ==
    /\ inv[i].pc = "route"
    /\ LET c == inv[i].call IN
       \E fault \in BOOLEAN, r \in RouteAnswers(tasks, c, nextId, now) :
          /\ inv' = [inv EXCEPT ![i] =
                IF fault THEN [@ EXCEPT !.pc = "exit", !.out = Returns(ServerErrorResponse)]
                ELSE IF r.resp.code \in {201, 204} \/ (c.op = "update" /\ r.resp.code = 200)
                THEN [@ EXCEPT !.pc = "http_commit", !.pending = Delta(tasks, r.store),
                               !.out = Returns(r.resp)]
                ELSE [@ EXCEPT !.pc = "exit", !.out = Returns(r.resp)]]
          /\ nextId' = IF c.op = "create" /\ ~fault /\ TaskCreateErrors(c.body) = {}
                       THEN nextId + 1 ELSE nextId
    /\ UNCHANGED <<tasks, notBridge>>

\* await db.commit() in create_task, update_task and delete_task
http_commit(i) ==
    /\ inv[i].pc = "http_commit"
    /\ \E fault \in BOOLEAN :
          /\ tasks' = IF fault THEN tasks ELSE ApplyDelta(tasks, inv[i].pending)
          /\ inv' = [inv EXCEPT ![i] =
                IF fault THEN [@ EXCEPT !.pc = "exit", !.out = Returns(ServerErrorResponse)]
                ELSE [@ EXCEPT !.pc = "exit", !.pending = NoDelta]]
    /\ UNCHANGED <<nextId, notBridge>>

\* the exit of async with in get_session, on return and on exception alike
http_exit(i) ==
    /\ inv[i].pc = "exit"
    /\ inv' = [inv EXCEPT ![i] = [CloseSession(@, FALSE) EXCEPT !.out = inv[i].out]]
    /\ UNCHANGED <<tasks, nextId, notBridge>>

\* the result has reached the caller
invocation_ends(i) ==
    /\ inv[i].pc = "done"
    /\ inv' = [inv EXCEPT ![i] = IdleSlot]
    /\ UNCHANGED <<tasks, nextId, notBridge>>

NextBridge ==
    \E i \in Invocations :
       \/ \E c \in ToolCalls : tool_start(i, c)
       \/ tool_acquire(i)
       \/ tool_body(i)
       \/ tool_commit(i)
       \/ tool_except(i)
       \/ tool_finally(i)
       \/ \E c \in HttpCalls : http_start(i, c)
       \/ http_get_session(i)
       \/ http_route(i)
       \/ http_commit(i)
       \/ http_exit(i)
       \/ invocation_ends(i)

SpecBridge == InitBridge /\ [][NextBridge]_vars

----------------------------------------------------------------------------
\* Claims on sessions and faults (specification SpecBridge)

\* C7 as stated: whatever the arguments and the store faults, a tool
\* invocation ends with a result object and lets no exception reach the agent
C7_ToolsAlwaysReturn ==
    \A i \in Invocations :
        inv[i].call.op \in ToolOps => inv[i].out.kind # "raise"

----------------------------------------------------------------------------
\* Agent runs over the ambient context of the function_tool mode
\* (specification SpecLegacy)

Runs == {"r1", "r2"}

\* _current_session = None, _current_user_id = None
NoContext == [session |-> "None", user_id |-> "None"]

NoUse == [kind |-> "none", session |-> "None", user_id |-> "None"]

IdleRun == [user_id |-> "None", pc |-> "idle", last |-> NoUse]

\* _get_context
GetContext(c) ==
    IF c.session = "None" \/ c.user_id = "None"
    THEN [raised |-> TRUE, session |-> "None", user_id |-> "None"]
    ELSE [raised |-> FALSE, session |-> c.session, user_id |-> c.user_id]

\* a tool of the function_tool mode: the session and the owner come from the
\* ambient context, the changes are flushed into that session
LegacyTool(store, context, c, id, t) ==
    LET g == GetContext(context) IN
    IF g.raised
    THEN [store |-> store, use |-> [kind |-> "raise", session |-> "None", user_id |-> "None"]]
    ELSE [store |-> RunTool(store, [c EXCEPT !.user_id = g.user_id], id, t).store,
          use |-> [kind |-> "return", session |-> g.session, user_id |-> g.user_id]]

InitLegacy ==
    /\ StoreUnused
    /\ runs = [r \in Runs |-> IdleRun]
    /\ ctx = NoContext
    /\ AuthUnused /\ BridgeUnused /\ AccountsUnused

notLegacy == <<now, resp, settings, credential, authOut, inv, users, conversations>>

\* the chat endpoint sets the context of its request before the agent runs
chat_set_context(r, u) ==
    /\ runs[r].pc = "idle"
    /\ runs' = [runs EXCEPT ![r] = [IdleRun EXCEPT !.user_id = u, !.pc = "running"]]
    /\ ctx' = [session |-> r, user_id |-> u]
    /\ UNCHANGED <<tasks, nextId, notLegacy>>

legacy_call(r, c) ==
    /\ runs[r].pc = "running"
    /\ c.op = "add_task" => nextId <= MaxTasks
    /\ LET x == LegacyTool(tasks, ctx, c, nextId, now) IN
       /\ tasks' = x.store
       /\ nextId' = IF DOMAIN x.store \ DOMAIN tasks # {} THEN nextId + 1 ELSE nextId
       /\ runs' = [runs EXCEPT ![r].last = x.use]
    /\ UNCHANGED <<ctx, notLegacy>>

legacy_add_task(r, title) == legacy_call(r, ToolCall("add_task", "None", BadId, title, <<>>))

legacy_list_tasks(r) == legacy_call(r, ToolCall("list_tasks", "None", BadId, None, None))

legacy_complete_task(r, id) == legacy_call(r, ToolCall("complete_task", "None", id, None, None))

legacy_delete_task(r, id) == legacy_call(r, ToolCall("delete_task", "None", id, None, None))

legacy_update_task(r, id, title, description) ==
    legacy_call(r, ToolCall("update_task", "None", id, title, description))

\* the context is cleared after the agent run
chat_clear_context(r) ==
    /\ runs[r].pc = "running"
    /\ runs' = [runs EXCEPT ![r] = IdleRun]
    /\ ctx' = NoContext
    /\ UNCHANGED <<tasks, nextId, notLegacy>>

NextLegacy ==
    \E r \in Runs :
       \/ \E u \in Owners : chat_set_context(r, u)
       \/ \E title \in TitleInputs : legacy_add_task(r, title)
       \/ legacy_list_tasks(r)
       \/ \E id \in IdInputs : legacy_complete_task(r, id)
       \/ \E id \in IdInputs : legacy_delete_task(r, id)
       \/ \E id \in IdInputs, a \in ToolUpdateInputs : legacy_update_task(r, id, a[1], a[2])
       \/ chat_clear_context(r)

SpecLegacy == InitLegacy /\ [][NextLegacy]_vars

\* C8 as stated: under every interleaving of set-context, tool call and
\* clear-context steps of two agent runs, a tool call uses the session of its
\* own run and the owner its run was started for
C8_RunsUseOwnContext ==
    \A r \in Runs :
        runs[r].last.kind = "return" =>
            (runs[r].last.session = r /\ runs[r].last.user_id = runs[r].user_id)

----------------------------------------------------------------------------
\* Titles on the write paths (specification SpecTitles): the routes and tools
\* of Spec, asked with titles that are empty, blank, or padded

TitleCases == {<<>>, <<" ">>, <<"\t">>, <<"a">>, <<" ", "a">>}

CreateTitleBodies == {[title |-> t] : t \in TitleCases}

\* a PATCH that sets a title together with another field
PatchTitleBodies == {[title |-> t, description |-> <<"b">>] : t \in TitleCases}

NextTitles ==
    \/ Tick
    \/ Deliver
    \/ \E u \in Owners, body \in CreateTitleBodies : create_task(u, body)
    \/ \E u \in Owners, id \in IdInputs, body \in PatchTitleBodies : update_task(u, id, body)
    \/ \E u \in Owners, id \in IdInputs : delete_task(u, id)
    \/ \E u \in Owners, title \in TitleCases : tool_add_task(u, title, <<>>)
    \/ \E u \in Owners, id \in IdInputs, title \in TitleCases :
          tool_update_task(u, id, title, <<"b">>)

SpecTitles == Init /\ [][NextTitles]_vars

\* C11 as stated: every stored task has an owner, a title that is not null, not
\* empty once its whitespace is trimmed and at most 255 characters long, and a
\* status that is pending or completed
C11_StoredTasksWellFormed ==
    \A id \in DOMAIN tasks :
        /\ tasks[id].user_id \in Owners
        /\ tasks[id].title # None
        /\ Strip(tasks[id].title) # <<>>
        /\ Len(tasks[id].title) <= TITLE_MAX_LENGTH
        /\ tasks[id].status \in TaskStatus

----------------------------------------------------------------------------
\* The list query over given stores (specification SpecList): the store is one
\* of a few stores the write paths can produce, and GET /tasks is asked with
\* search terms, filter / sort / page combinations and out-of-range parameters

\* a stored row that was completed at time t2
CompletedTask(id, user_id, title, description, t, t2) ==
    [NewTask(id, user_id, title, description, t) EXCEPT
        !.status = COMPLETED, !.updated_at = t2]

\* five rows of two owners: titles and descriptions with %, _ and both letter
\* cases, two rows created at the same instant, two titles equal but for case
SearchStore ==
    <<NewTask(1, "A", <<"a", "b">>, None, 1),
      CompletedTask(2, "A", <<"A", "%">>, <<"b", "_">>, 2, 3),
      NewTask(3, "B", <<"a", "_", "b">>, None, 2),
      NewTask(4, "A", <<"B">>, <<"A", "b">>, 2),
      NewTask(5, "A", <<"b">>, None, 3)>>

\* the title of the i-th row of BigStore: i written with the digits a and b
BigTitle(i) ==
    [k \in 1..5 |-> IF (i \div (2 ^ (5 - k))) % 2 = 1 THEN "b" ELSE "a"]

\* one row more than the default page holds, all of owner A, created one after
\* the other, every third one completed
BigStore ==
    [i \in 1..(DEFAULT_LIMIT + 1) |->
        IF i % 3 = 0 THEN CompletedTask(i, "A", BigTitle(i), None, i, i + 1)
                     ELSE NewTask(i, "A", BigTitle(i), None, i)]

\* the stores of the specification: SearchStore as it grew row by row, and
\* BigStore
ListStores == {SubSeq(SearchStore, 1, k) : k \in 0..Len(SearchStore)} \cup {BigStore}

\* a search term of n characters
LongTerm(n) == [i \in 1..n |-> "a"]

SearchTerms ==
    {None, <<>>, <<" ">>, <<"\t", " ">>, <<"a">>, <<"B">>, <<" ", "b", " ">>,
     <<"a", "b", "a">>, <<"%">>, <<"_">>, <<"a", "_">>, <<"A", "%">>,
     LongTerm(SEARCH_MAX_LENGTH)}

SearchQueries ==
    {[DefaultQuery EXCEPT !.search = t, !.limit = LIMIT_MAX] : t \in SearchTerms}

CombinedQueries ==
    [offset : {0, 1}, limit : {1, 2, DEFAULT_LIMIT}, status : {"None", PENDING, COMPLETED},
     search : {None, <<"b">>}, sort : {"created_at", "title"}, order : {"asc", "desc"}]

\* parameters at and beyond the bounds the route declares
BoundQueries ==
    {[DefaultQuery EXCEPT !.limit = l] : l \in {0, 1, LIMIT_MAX, LIMIT_MAX + 1}}
    \cup {[DefaultQuery EXCEPT !.offset = o] : o \in {-1, 0, DEFAULT_LIMIT + 1}}
    \cup {[DefaultQuery EXCEPT !.search = LongTerm(n)] :
             n \in {SEARCH_MAX_LENGTH, SEARCH_MAX_LENGTH + 1}}
    \cup {[DefaultQuery EXCEPT !.status = "archived"],
          [DefaultQuery EXCEPT !.sort = "updated_at"],
          [DefaultQuery EXCEPT !.order = "up"],
          [DefaultQuery EXCEPT !.limit = -1, !.offset = 1]}

InitList ==
    /\ tasks \in ListStores
    /\ nextId = Len(tasks) + 1
    /\ now = Len(tasks) + 1
    /\ resp = NoResp
    /\ AuthUnused /\ BridgeUnused /\ LegacyUnused /\ AccountsUnused

NextList ==
    \/ Deliver
    \/ \E u \in Owners, p \in {DefaultQuery} \cup SearchQueries \cup CombinedQueries
                              \cup BoundQueries :
          list_tasks(u, p)

SpecList == InitList /\ [][NextList]_vars

\* Claims on the list query (specification SpecList)

\* term occurs in text as a run of consecutive characters, ignoring letter case
Contains(text, term) ==
    \E i \in 0..(Len(text) - Len(term)) :
        SubSeq(LowerText(text), i + 1, i + Len(term)) = LowerText(term)

\* the row matches the search term: the term occurs in its title or in its
\* description
Matches(row, term) ==
    \/ row.title # None /\ Contains(row.title, term)
    \/ row.description # None /\ Contains(row.description, term)

\* the search term filters: it is given and not blank
Filtering(search) == search # None /\ Strip(search) # <<>>

\* the owner's rows the claims expect a list request to keep
Kept(store, user_id, p) ==
    {id \in DOMAIN store :
        /\ store[id].user_id = user_id
        /\ p.status # "None" => store[id].status = p.status
        /\ Filtering(p.search) => Matches(store[id], Strip(p.search))}

\* row a comes strictly before row b in the order the request chose
Precedes(store, a, b, p) ==
    LET less(x, y) ==
            IF p.sort = "title"
            THEN TextLess(LowerText(store[x].title), LowerText(store[y].title))
            ELSE store[x].created_at < store[y].created_at
    IN IF p.order = "asc" THEN less(a, b) ELSE less(b, a)

Smaller(a, b) == IF a < b THEN a ELSE b

\* items is what the claims expect a list request to return: the kept rows in
\* the chosen order, cut to the rows after the first offset ones, at most limit
\* of them (rows with equal sort keys may come in any order: the rows left out
\* can be split into offset rows that may come before the page and rows that
\* may come after it)
IsPageOf(store, user_id, p, items) ==
    LET kept == Kept(store, user_id, p)
        s    == [i \in DOMAIN items |-> items[i].id]
        k    == Len(s)
        out  == kept \ {s[i] : i \in DOMAIN s}
        rest == IF Cardinality(kept) > p.offset THEN Cardinality(kept) - p.offset ELSE 0
    IN /\ k = Smaller(p.limit, rest)
       /\ \A i \in DOMAIN s : s[i] \in kept /\ items[i] = store[s[i]]
       /\ \A i, j \in DOMAIN s : i < j => s[i] # s[j] /\ ~Precedes(store, s[j], s[i], p)
       /\ k > 0 =>
             LET low == {x \in out : Precedes(store, x, s[k], p)}
                 can == {x \in out : ~Precedes(store, s[1], x, p)}
             IN low \subseteq can /\ Cardinality(low) <= p.offset
                                  /\ p.offset <= Cardinality(can)

\* C12 as stated: a list request returns exactly the owner's tasks, kept only if
\* they have the requested status when one is given and only if they match the
\* search term when the trimmed term is not empty, ordered by the chosen field
\* (created-at, or title ignoring case) in the chosen direction, then cut to
\* the slice that starts at the offset and has at most limit items; without
\* parameters that is the 20 newest tasks, newest first
C12_ListIsFilteredSortedSlice ==
    resp = NoResp =>
       \A u \in Owners, p \in {DefaultQuery} \cup SearchQueries \cup CombinedQueries :
          \A r \in HttpListTasks(tasks, u, p) :
             r.code = 200 /\ IsPageOf(tasks, u, p, r.body.items)

\* C13 as stated: a task matches the search exactly when the trimmed term
\* occurs, ignoring letter case, as a substring of its title or of its
\* description, for every term of at most 100 characters, terms with % and _
\* included; an empty or blank term filters nothing
C13_SearchIsSubstringMatch ==
    resp = NoResp =>
       \A u \in Owners, p \in SearchQueries :
          \A r \in HttpListTasks(tasks, u, p) :
             /\ r.code = 200
             /\ {r.body.items[i].id : i \in DOMAIN r.body.items}
                   = {id \in get_by_user(tasks, u) :
                         Filtering(p.search) => Matches(tasks[id], Strip(p.search))}

\* the list parameters are within the bounds the route documents
InBounds(p) ==
    /\ p.limit \in 1..100
    /\ p.offset >= 0
    /\ p.search # None => Len(p.search) <= 100
    /\ p.status \in {"None", "pending", "completed"}
    /\ p.sort \in {"created_at", "title"}
    /\ p.order \in {"asc", "desc"}

\* C14: a list request with a parameter out of bounds (limit outside 1..100,
\* negative offset, search term longer than 100 characters, status, sort or
\* order not a member of its enumeration) is answered 422 with the validation
\* errors and no tasks, never served with a clamped value; a request within the
\* bounds is answered 200 with at most limit tasks
C14_OutOfBoundsIsRejected ==
    /\ resp = NoResp =>
          \A u \in Owners, p \in BoundQueries \cup CombinedQueries \cup SearchQueries :
             \A r \in HttpListTasks(tasks, u, p) :
                IF InBounds(p)
                THEN r.code = 200 /\ Len(r.body.items) <= p.limit
                ELSE /\ r.code = 422
                     /\ "items" \notin DOMAIN r.body
                     /\ "errors" \in DOMAIN r.body
    /\ resp.op = "list" =>
          /\ resp.code \in {200, 422}
          /\ resp.valid <=> resp.code = 200
          /\ resp.code = 422 => "items" \notin DOMAIN resp.body

\* a list request was rejected with 422 while its caller had stored tasks
C14_Witness ==
    /\ resp.op = "list"
    /\ resp.code = 422
    /\ get_by_user(tasks, resp.user) # {}

\* Claims on titles (specification SpecTitles)

\* the titles that are empty once their whitespace is trimmed
BlankTitles == {t \in TitleCases : Strip(t) = <<>>}

\* C15 as stated: on every write path that takes a title (POST /tasks, PATCH
\* /tasks/{id}, the add tool, the update tool) a title that is empty after
\* trimming, whitespace-only titles included, is a validation failure, 422 on
\* the HTTP routes and an error result from the tools: the store is left as
\* it was, so the title is not stored and no other field of the same request
\* is applied
C15_BlankTitleIsRejected ==
    resp = NoResp =>
       \A u \in Owners, t \in BlankTitles :
          /\ LET r == HttpCreateTask(tasks, u, [title |-> t], nextId, now)
             IN r.resp.code = 422 /\ r.store = tasks
          /\ LET r == ToolAddTask(tasks, u, t, <<>>, nextId, now)
             IN "error" \in DOMAIN r.result /\ r.store = tasks
          /\ \A id \in get_by_user(tasks, u) :
                /\ LET r == HttpUpdateTask(tasks, u, id,
                                           [title |-> t, description |-> <<"b">>], now)
                   IN r.resp.code = 422 /\ r.store = tasks
                /\ LET r == ToolUpdateTask(tasks, u, id, t, <<"b">>, now)
                   IN "error" \in DOMAIN r.result /\ r.store = tasks

----------------------------------------------------------------------------
\* Claims on the write routes (specification Spec)

\* C16 as stated: PATCH {status: completed} on a task of the caller that is
\* already completed is answered 200 with the task, leaves the status and
\* every other field but updated_at as they were, and sets updated_at to the
\* time of the request, on each repetition
C16_RepeatedCompleteRefreshes ==
    resp = NoResp =>
       \A u \in Owners : \A id \in get_by_user(tasks, u) :
          tasks[id].status = COMPLETED =>
             LET r == HttpUpdateTask(tasks, u, id, [status |-> COMPLETED], now) IN
             /\ r.resp.code = 200
             /\ r.resp.body = TaskResponse(r.store[id])
             /\ \A f \in DOMAIN tasks[id] \ {"updated_at"} : r.store[id][f] = tasks[id][f]
             /\ r.store[id].updated_at = now

\* C17: a task created through POST /tasks is stored with the caller as owner
\* and the status pending whatever the body contains, with no description
\* when the body gives none, with the given title, and with updated_at equal
\* to created_at; the answer is that task, and a get of it by the same owner
\* right after the create returns exactly those values
C17_CreateStoresCallerAndDefaults ==
    /\ resp = NoResp =>
          \A u \in Owners, body \in CreateBodies :
             LET r   == HttpCreateTask(tasks, u, body, nextId, now)
                 row == r.store[nextId]
             IN r.resp.code = 201 =>
                   /\ nextId \in DOMAIN r.store
                   /\ row.user_id = u
                   /\ row.status = PENDING
                   /\ row.title = body.title
                   /\ "description" \notin DOMAIN body => row.description = None
                   /\ row.updated_at = row.created_at
                   /\ r.resp.body = TaskResponse(row)
                   /\ HttpGetTask(r.store, u, nextId) = [code |-> 200, body |-> r.resp.body]
    /\ resp.op = "create" /\ resp.code = 201 =>
          /\ resp.body.id \in DOMAIN tasks
          /\ tasks[resp.body.id].user_id = resp.user
          /\ tasks[resp.body.id].status = PENDING
          /\ tasks[resp.body.id].updated_at = tasks[resp.body.id].created_at
          /\ HttpGetTask(tasks, resp.user, resp.body.id) = [code |-> 200, body |-> resp.body]

\* a task was created from a body that named another owner and a status
C17_Witness ==
    /\ resp.op = "create"
    /\ resp.code = 201
    /\ {"user_id", "status"} \subseteq resp.extra
    /\ resp.user = "A"
    /\ resp.body.id \in DOMAIN tasks

----------------------------------------------------------------------------
\* Deleting among several tasks (specification SpecDelete): the store starts
\* with tasks created earlier, two of owner A and one of owner B; they and a
\* task created later are read, updated and deleted through the routes and
\* tools of Spec

EarlierIds == {-3, -2, -1}

EarlierStore ==
    [id \in EarlierIds |->
        NewTask(id, IF id = -1 THEN "B" ELSE "A", IF id = -3 THEN <<"a">> ELSE <<"b">>,
                None, 0)]

DeleteIdInputs == EarlierIds \cup IdInputs

InitDelete ==
    /\ tasks = EarlierStore
    /\ nextId = 1
    /\ now = 0
    /\ resp = NoResp
    /\ AuthUnused /\ BridgeUnused /\ LegacyUnused /\ AccountsUnused

NextDelete ==
    \/ Deliver
    \/ \E u \in Owners, id \in DeleteIdInputs : delete_task(u, id)
    \/ \E u \in Owners, id \in DeleteIdInputs : tool_delete_task(u, id)
    \/ \E u \in Owners, id \in DeleteIdInputs : get_task(u, id)
    \/ \E u \in Owners, id \in DeleteIdInputs : update_task(u, id, [status |-> COMPLETED])
    \/ \E u \in Owners : create_task(u, [title |-> <<"a">>])
    \/ \E u \in Owners :
          list_tasks(u, DefaultQuery) \/ list_tasks(u, [DefaultQuery EXCEPT !.search = <<"a">>])
    \/ \E u \in Owners : tool_list_tasks(u, "all")

SpecDelete == InitDelete /\ [][NextDelete]_vars

\* the ids handed out so far: those of the earlier tasks and of the tasks
\* created since
HandedOut == EarlierIds \cup 1..(nextId - 1)

\* the answer reports a successful delete (route or tool)
Deleted(r) ==
    \/ r.op = "delete" /\ r.code = 204
    \/ r.op = "tool_delete" /\ "status" \in DOMAIN r.body

\* C18: a successful delete by an owner removes that owner's task with the
\* given id and nothing else, every other task staying as it was; a task that
\* is gone stays gone whatever create, update, delete or read follows, so
\* every later get of its id is answered not-found and no later list, search
\* or tool list returns it
C18_DeletedStaysDeleted ==
    /\ [][(resp = NoResp /\ Deleted(resp')) =>
             /\ resp'.id \in DOMAIN tasks
             /\ tasks[resp'.id].user_id = resp'.user
             /\ DOMAIN tasks' = DOMAIN tasks \ {resp'.id}
             /\ \A id \in DOMAIN tasks' : tasks'[id] = tasks[id]]_vars
    /\ [][\A id \in HandedOut \ DOMAIN tasks : id \notin DOMAIN tasks']_vars
    /\ [](\A id \in HandedOut \ DOMAIN tasks :
             /\ id \notin ReturnedIds(resp)
             /\ resp.op = "get" /\ resp.id = id =>
                   resp.code = 404 /\ resp.body = NotFoundResponse(id).body)

\* owner A's earlier task -3 was deleted, a task was created afterwards, and
\* a later get of -3 by A was answered 404 while A's other earlier task is
\* still stored as it was
C18_Witness ==
    /\ resp.op = "get" /\ resp.user = "A" /\ resp.id = -3 /\ resp.code = 404
    /\ -3 \notin DOMAIN tasks
    /\ -2 \in DOMAIN tasks /\ tasks[-2] = EarlierStore[-2]
    /\ \E id \in DOMAIN tasks : id > 0

----------------------------------------------------------------------------
\* Two PATCH requests at once (specification SpecPatch): the request steps of
\* SpecBridge, store faults included, over a store that holds owner A's task 1;
\* each of the two slots serves one request, started at any time

PatchedStore == <<NewTask(1, "A", <<"a">>, None, 0)>>

\* updates of task 1 by its owner that set different fields, the same field,
\* or overlapping fields; an update of a task that does not exist; an update
\* by another owner
PatchCalls ==
    {HttpCall("update", "A", 1, b) :
        b \in {[title |-> <<"B">>], [title |-> <<"b">>], [status |-> COMPLETED],
               [status |-> PENDING], [description |-> <<"b">>],
               [title |-> <<"a">>, status |-> COMPLETED]}}
    \cup {HttpCall("update", "A", 2, [title |-> <<"B">>]),
          HttpCall("update", "B", 1, [title |-> <<"B">>])}

InitPatch ==
    /\ tasks = PatchedStore
    /\ nextId = 2
    /\ now = 0
    /\ resp = NoResp
    /\ inv = [i \in Invocations |-> IdleSlot]
    /\ AuthUnused /\ LegacyUnused /\ AccountsUnused

NextPatch ==
    \E i \in Invocations :
       \/ \E c \in PatchCalls : http_start(i, c)
       \/ http_get_session(i)
       \/ http_route(i)
       \/ http_commit(i)
       \/ http_exit(i)

SpecPatch == InitPatch /\ [][NextPatch]_vars

\* the request in slot i is an update of task 1 that was answered 200 and
\* whose commit is done
Committed(i) ==
    /\ inv[i].call.op = "update"
    /\ inv[i].call.task_id = 1
    /\ inv[i].pc \in {"exit", "done"}
    /\ inv[i].out.kind = "return"
    /\ inv[i].out.value.code = 200

\* the values the two requests wrote to field f
Written(f) ==
    {inv[i].call.body[f] : i \in {j \in Invocations : f \in DOMAIN inv[j].call.body}}

\* C19: when two PATCH requests to the same task have both committed, under
\* any interleaving of their steps, no update is lost: a field only one of
\* them set has that request's value (changes to different fields are both
\* there) and a field both set has one of the two values; a PATCH is answered
\* 200 or 404 wherever it falls in an interleaving, and the only other answer
\* a request ends with is the 500 of a store fault
C19_NoLostUpdate ==
    /\ (\A i \in Invocations : Committed(i)) =>
          \A f \in TaskUpdateFields : Written(f) # {} => tasks[1][f] \in Written(f)
    /\ \A c \in PatchCalls : \A r \in RouteAnswers(tasks, c, nextId, now) :
          r.resp.code \in {200, 404}
    /\ \A i \in Invocations :
          inv[i].out.kind # "none" =>
             /\ inv[i].out.kind = "return"
             /\ inv[i].out.value.code \in {200, 404}
                   \/ inv[i].out.value = ServerErrorResponse

\* two updates of task 1 that set different fields were served at the same
\* time: both have committed and neither has released its session yet
C19_Witness ==
    /\ \A i \in Invocations : Committed(i) /\ inv[i].pc = "exit" /\ inv[i].sess = "open"
    /\ DOMAIN inv["i1"].call.body = {"title"}
    /\ DOMAIN inv["i2"].call.body = {"status"}
    /\ tasks[1].title = inv["i1"].call.body.title
    /\ tasks[1].status = inv["i2"].call.body.status
    /\ tasks[1].status # PatchedStore[1].status
    /\ tasks[1].title # PatchedStore[1].title

----------------------------------------------------------------------------
\* Failure paths of the account, chat and conversation routes, beside those of
\* the task routes (specification SpecErrors)

MaxConversations == 2

\* the messages stored over a run of the model
MaxMessages == 4

Emails == {"e1@x", "e2@x"}

\* a string EmailStr refuses
BadEmail == "not-an-email"

Passwords == {"password1", "password2"}

\* a password shorter than RegisterRequest allows
ShortPassword == "short"

\* chat messages: empty, blank, ordinary
ChatMessages == {<<>>, <<" ">>, <<"a">>}

\* raise HTTPException(status_code, detail): no handler is registered for it,
\* so the framework answers with its own body
HttpExceptionResponse(status_code, detail) ==
    [code |-> status_code, body |-> [detail |-> detail]]

\* validation_error_handler on a route other than the task routes
ValidationResponseAt(path, loc) ==
    [code |-> 422,
     body |-> [type |-> "about:blank", title |-> "Validation Error", status |-> 422,
               detail |-> "Request validation failed", instance |-> path,
               errors |-> loc]]

\* authentication_error_handler
AuthenticationResponse(path) ==
    [code |-> 401,
     body |-> [type |-> "about:blank", title |-> "Unauthorized", status |-> 401,
               detail |-> "Missing Authorization header", instance |-> path]]

NotConfigured == "Authentication not configured. Set JWT_SECRET environment variable."

\* hash_password and verify_password: bcrypt, the salt left out
HashPassword(password) == <<"bcrypt", password>>

VerifyPassword(plain_password, hashed_password) ==
    hashed_password = HashPassword(plain_password)

\* a row of the users table: the store is the sequence of its rows
NewUser(email, password) == [email |-> email, hashed_password |-> HashPassword(password)]

\* select(User).where(User.email == email)
SelectUserByEmail(store, email) == {i \in DOMAIN store : store[i].email = email}

\* INSERT into users at commit: the unique index on email refuses a second
\* row with the same email (IntegrityError)
InsertUser(store, row) ==
    IF SelectUserByEmail(store, row.email) # {}
    THEN [outcome |-> "fault", users |-> store]
    ELSE [outcome |-> "ok", users |-> Append(store, row)]

\* the fields of a register body that fail RegisterRequest
RegisterErrors(email, password) ==
    (IF email = BadEmail THEN {"email"} ELSE {})
    \cup (IF password = ShortPassword THEN {"password"} ELSE {})

NoAnswer == [code |-> 0, body |-> [empty |-> TRUE]]

\* register up to db.add: the existence check and the configuration check;
\* NoAnswer when the route goes on to insert
RegisterSelect(store, s, email) ==
    IF SelectUserByEmail(store, email) # {}
    THEN HttpExceptionResponse(409, "Email already registered")
    ELSE IF s.jwt_secret = ""
    THEN HttpExceptionResponse(500, NotConfigured)
    ELSE NoAnswer

\* db.add(user); await db.commit(): the IntegrityError of the unique index
\* is caught nowhere
RegisterCommit(store, email, password) ==
    LET r == InsertUser(store, NewUser(email, password)) IN
    IF r.outcome = "fault"
    THEN [users |-> store, resp |-> ServerErrorResponse]
    ELSE [users |-> r.users,
          resp |-> [code |-> 201, body |-> [user |-> email, token_type |-> "bearer"]]]

\* POST /auth/register, served without another request in between
Register(store, s, email, password) ==
    IF RegisterErrors(email, password) # {}
    THEN [users |-> store,
          resp |-> ValidationResponseAt("/api/v1/auth/register",
                                        RegisterErrors(email, password))]
    ELSE IF RegisterSelect(store, s, email) # NoAnswer
    THEN [users |-> store, resp |-> RegisterSelect(store, s, email)]
    ELSE RegisterCommit(store, email, password)

\* a password LoginRequest refuses (min_length=1)
EmptyPassword == ""

\* the fields of a login body that fail LoginRequest
LoginErrors(email, password) ==
    (IF email = BadEmail THEN {"email"} ELSE {})
    \cup (IF password = EmptyPassword THEN {"password"} ELSE {})

\* login telling an unknown email from a wrong password
LoginNamesUnknownEmail(store, s, email, password) ==
    IF LoginErrors(email, password) # {}
    THEN ValidationResponseAt("/api/v1/auth/login", LoginErrors(email, password))
    ELSE IF SelectUserByEmail(store, email) = {}
    THEN HttpExceptionResponse(401, "Unknown email")
    ELSE IF \E i \in SelectUserByEmail(store, email) :
               ~VerifyPassword(password, store[i].hashed_password)
    THEN HttpExceptionResponse(401, "Invalid email or password")
    ELSE IF s.jwt_secret = ""
    THEN HttpExceptionResponse(500, NotConfigured)
    ELSE [code |-> 200, body |-> [user |-> email, token_type |-> "bearer"]]

\* POST /auth/login
Login(store, s, email, password) ==
    IF LoginErrors(email, password) # {}
    THEN ValidationResponseAt("/api/v1/auth/login", LoginErrors(email, password))
    ELSE IF \/ SelectUserByEmail(store, email) = {}
            \/ \E i \in SelectUserByEmail(store, email) :
                  ~VerifyPassword(password, store[i].hashed_password)
    THEN HttpExceptionResponse(401, "Invalid email or password")
    ELSE IF s.jwt_secret = ""
    THEN HttpExceptionResponse(500, NotConfigured)
    ELSE [code |-> 200, body |-> [user |-> email, token_type |-> "bearer"]]

\* conversation_id: int | None = None
NoConversationId == 0

\* the conversations and messages tables with their id sequences
NoConversations == [rows |-> <<>>, last_id |-> 0, messages |-> <<>>, last_message_id |-> 0]

\* a lookup of a conversation by its id alone
GetConversationOfAnyone(convs, conversation_id, user_id) ==
    {id \in DOMAIN convs.rows : id = conversation_id}

\* Conversation.get_by_id_and_user
GetConversation(convs, conversation_id, user_id) ==
    {id \in DOMAIN convs.rows : id = conversation_id /\ convs.rows[id].user_id = user_id}

\* the ids of the messages of a conversation
MessagesOf(messages, conversation_id) ==
    {m \in DOMAIN messages : messages[m].conversation_id = conversation_id}

\* Message.count_by_conversation
CountByConversation(messages, conversation_id) ==
    Cardinality(MessagesOf(messages, conversation_id))

\* ORDER BY created_at alone: every sequence of the ids that is sorted by
\* created_at, ascending or descending; rows with equal created_at come in
\* whatever order the database returns them
RECURSIVE OrderByCreatedAt(_, _, _)
OrderByCreatedAt(messages, ids, desc) ==
    IF ids = {} THEN {<<>>}
    ELSE UNION {{<<a>> \o q : q \in OrderByCreatedAt(messages, ids \ {a}, desc)} :
                  a \in {x \in ids : \A y \in ids :
                            IF desc THEN messages[y].created_at <= messages[x].created_at
                                    ELSE messages[x].created_at <= messages[y].created_at}}

Reversed(q) == [i \in 1..Len(q) |-> q[Len(q) + 1 - i]]

\* limit=None
NoLimit == -1

\* Message.get_by_conversation: the possible results, as sequences of ids
GetByConversation(messages, conversation_id, limit) ==
    LET ids == MessagesOf(messages, conversation_id) IN
    IF limit = NoLimit THEN OrderByCreatedAt(messages, ids, FALSE)
    ELSE {Reversed(Page(q, 0, limit)) : q \in OrderByCreatedAt(messages, ids, TRUE)}

\* Message.get_last_n
GetLastN(messages, conversation_id, n) == GetByConversation(messages, conversation_id, n)

\* the n the chat route asks get_last_n for
HISTORY_LIMIT == 100

CONVERSATION_TITLE_LENGTH == 50

\* title = message[:50] if len(message) > 50 else message
ConversationTitle(message) ==
    IF Len(message) > CONVERSATION_TITLE_LENGTH
    THEN SubSeq(message, 1, CONVERSATION_TITLE_LENGTH) ELSE message

USER == "user"
ASSISTANT == "assistant"

\* Message(conversation_id, role, content) with the server default created_at
NewMessage(conversation_id, role, content, t) ==
    [conversation_id |-> conversation_id, role |-> role, content |-> content,
     created_at |-> t]

Apology == <<"I apologize, but I couldn't process that request.">>

\* result.final_output or the apology
ResponseText(final_output) == IF final_output = <<>> THEN Apology ELSE final_output

\* the writes of a chat request that are flushed but not committed
NoPending == [conversation_id |-> NoConversationId, created |-> FALSE, user_id |-> "None",
              title |-> <<>>, started_at |-> 0, messages |-> <<>>]

\* the messages table as the session of the request sees it: the committed
\* rows and its own flushed ones
SessionMessages(convs, pending) ==
    [m \in DOMAIN convs.messages \cup DOMAIN pending.messages |->
        IF m \in DOMAIN pending.messages THEN pending.messages[m] ELSE convs.messages[m]]

\* [{"role": msg.role, "content": msg.content} for msg in history_messages]
AgentHistory(messages, q) ==
    [i \in 1..Len(q) |-> [role |-> messages[q[i]].role, content |-> messages[q[i]].content]]

\* the start of POST /chat with every write committed as it is made
ChatBeginCommitted(convs, user_id, message, conversation_id, t) ==
    IF message = <<>>
    THEN [conversations |-> convs, pending |-> NoPending, histories |-> {},
          resp |-> ValidationResponseAt("/api/v1/chat", {"message"})]
    ELSE IF Strip(message) = <<>>
    THEN [conversations |-> convs, pending |-> NoPending, histories |-> {},
          resp |-> HttpExceptionResponse(400, "Message cannot be empty")]
    ELSE IF conversation_id # NoConversationId
            /\ GetConversation(convs, conversation_id, user_id) = {}
    THEN [conversations |-> convs, pending |-> NoPending, histories |-> {},
          resp |-> HttpExceptionResponse(404, "Conversation not found")]
    ELSE LET created == conversation_id = NoConversationId
             id      == IF created THEN convs.last_id + 1 ELSE conversation_id
             mid     == convs.last_message_id + 1
             pending == [conversation_id |-> id, created |-> created, user_id |-> user_id,
                         title |-> ConversationTitle(Strip(message)), started_at |-> t,
                         messages |-> [m \in {mid} |->
                                          NewMessage(id, USER, Strip(message), t)]]
             seen    == SessionMessages(convs, pending)
         IN [conversations |->
                [rows |-> IF created
                          THEN [i \in DOMAIN convs.rows \cup {id} |->
                                  IF i = id
                                  THEN [user_id |-> user_id, title |-> pending.title,
                                        created_at |-> t, updated_at |-> t]
                                  ELSE convs.rows[i]]
                          ELSE convs.rows,
                 last_id |-> IF created THEN id ELSE convs.last_id,
                 messages |-> seen,
                 last_message_id |-> mid],
             pending |-> pending,
             histories |-> {AgentHistory(seen, q) : q \in GetLastN(seen, id, HISTORY_LIMIT)},
             resp |-> NoAnswer]

\* POST /chat up to the agent run (for an authenticated caller): validation,
\* get or create the conversation, store the user message, load the history.
\* t is the time the transaction of the request started. The id sequences
\* advance at flush; the rows stay uncommitted in pending
ChatBegin(convs, user_id, message, conversation_id, t) ==
    IF message = <<>>
    THEN [conversations |-> convs, pending |-> NoPending, histories |-> {},
          resp |-> ValidationResponseAt("/api/v1/chat", {"message"})]
    ELSE IF Strip(message) = <<>>
    THEN [conversations |-> convs, pending |-> NoPending, histories |-> {},
          resp |-> HttpExceptionResponse(400, "Message cannot be empty")]
    ELSE IF conversation_id # NoConversationId
            /\ GetConversation(convs, conversation_id, user_id) = {}
    THEN [conversations |-> convs, pending |-> NoPending, histories |-> {},
          resp |-> HttpExceptionResponse(404, "Conversation not found")]
    ELSE LET created == conversation_id = NoConversationId
             id      == IF created THEN convs.last_id + 1 ELSE conversation_id
             mid     == convs.last_message_id + 1
             pending == [conversation_id |-> id, created |-> created, user_id |-> user_id,
                         title |-> ConversationTitle(Strip(message)), started_at |-> t,
                         messages |-> [m \in {mid} |->
                                          NewMessage(id, USER, Strip(message), t)]]
             seen    == SessionMessages(convs, pending)
         IN [conversations |-> [convs EXCEPT !.last_id = IF created THEN id ELSE @,
                                              !.last_message_id = mid],
             pending |-> pending,
             histories |-> {AgentHistory(seen, q) : q \in GetLastN(seen, id, HISTORY_LIMIT)},
             resp |-> NoAnswer]

\* the end of POST /chat storing the assistant message alone
ChatFinishAssistantOnly(convs, pending, final_output, t) ==
    LET id  == pending.conversation_id
        mid == convs.last_message_id + 1
    IN [conversations |->
           [convs EXCEPT
              !.messages = [m \in DOMAIN @ \cup {mid} |->
                               IF m = mid
                               THEN NewMessage(id, ASSISTANT, ResponseText(final_output),
                                               pending.started_at)
                               ELSE @[m]],
              !.last_message_id = mid],
        resp |-> [code |-> 200,
                  body |-> [conversation_id |-> id,
                            response |-> ResponseText(final_output)]]]

\* POST /chat after a successful agent run: store the assistant message,
\* touch the conversation at time t, commit everything the request wrote
ChatFinish(convs, pending, final_output, t) ==
    LET id  == pending.conversation_id
        mid == convs.last_message_id + 1
        row == IF pending.created
               THEN [user_id |-> pending.user_id, title |-> pending.title,
                     created_at |-> pending.started_at, updated_at |-> t]
               ELSE [convs.rows[id] EXCEPT !.updated_at = t]
    IN [conversations |->
           [convs EXCEPT
              !.rows = [i \in DOMAIN @ \cup {id} |-> IF i = id THEN row ELSE @[i]],
              !.messages = [m \in DOMAIN @ \cup DOMAIN pending.messages \cup {mid} |->
                               IF m = mid
                               THEN NewMessage(id, ASSISTANT, ResponseText(final_output),
                                               pending.started_at)
                               ELSE IF m \in DOMAIN pending.messages
                               THEN pending.messages[m] ELSE @[m]],
              !.last_message_id = mid],
        resp |-> [code |-> 200,
                  body |-> [conversation_id |-> id,
                            response |-> ResponseText(final_output)]]]

\* POST /chat after a failed agent run: nothing is committed, the session is
\* closed by get_session
ChatFail(convs, pending) ==
    [conversations |-> convs,
     resp |-> HttpExceptionResponse(500, "Failed to process message. Please try again.")]

\* POST /chat served without another request in between; agent_ok tells
\* whether the agent run succeeds
Chat(convs, user_id, message, conversation_id, agent_ok, final_output, t) ==
    LET b == ChatBegin(convs, user_id, message, conversation_id, t) IN
    IF b.resp # NoAnswer THEN [conversations |-> b.conversations, resp |-> b.resp]
    ELSE IF ~agent_ok THEN ChatFail(b.conversations, b.pending)
    ELSE ChatFinish(b.conversations, b.pending, final_output, t)

\* MessageResponse
MessageResponse(messages, m) ==
    [id |-> m, role |-> messages[m].role, content |-> messages[m].content,
     created_at |-> messages[m].created_at]

\* GET /conversations/{conversation_id}: the possible answers
HttpGetConversation(convs, user_id, conversation_id) ==
    IF GetConversation(convs, conversation_id, user_id) = {}
    THEN {HttpExceptionResponse(404, "Conversation not found")}
    ELSE {[code |-> 200,
           body |-> [id |-> conversation_id,
                     title |-> convs.rows[conversation_id].title,
                     created_at |-> convs.rows[conversation_id].created_at,
                     updated_at |-> convs.rows[conversation_id].updated_at,
                     messages |-> [i \in 1..Len(q) |-> MessageResponse(convs.messages, q[i])]]] :
            q \in GetByConversation(convs.messages, conversation_id, NoLimit)}

\* Conversation.delete_by_id_and_user with the ON DELETE CASCADE of
\* messages.conversation_id
DeleteByIdAndUser(convs, conversation_id, user_id) ==
    IF GetConversation(convs, conversation_id, user_id) = {} THEN convs
    ELSE [convs EXCEPT
            !.rows = [i \in DOMAIN @ \ {conversation_id} |-> @[i]],
            !.messages = [m \in DOMAIN @ \ MessagesOf(@, conversation_id) |-> @[m]]]

\* DELETE /conversations/{conversation_id}
HttpDeleteConversation(convs, user_id, conversation_id) ==
    IF GetConversation(convs, conversation_id, user_id) = {}
    THEN [conversations |-> convs,
          resp |-> HttpExceptionResponse(404, "Conversation not found")]
    ELSE [conversations |-> DeleteByIdAndUser(convs, conversation_id, user_id),
          resp |-> [code |-> 200,
                    body |-> [success |-> TRUE,
                              deleted_conversation_id |-> conversation_id,
                              deleted_message_count |->
                                 CountByConversation(convs.messages, conversation_id)]]]

ConversationIds == 1..MaxConversations

\* the two configurations of the account routes: JWT_SECRET set or not
AccountSettings ==
    {s \in SettingsSet :
        /\ s.environment = "development"
        /\ s.better_auth_secret = ""
        /\ ~s.auth_migration_enabled
        /\ s.enable_legacy_tokens}

InitErrors ==
    /\ tasks = <<>>
    /\ nextId = 1
    /\ now = 0
    /\ resp = NoResp
    /\ settings \in AccountSettings
    /\ credential = "unused" /\ authOut = "unused"
    /\ BridgeUnused /\ LegacyUnused
    /\ users = <<>>
    /\ conversations = NoConversations

notAccounts == <<tasks, nextId, now, settings, credential, authOut, inv, runs, ctx>>

\* an exception no handler is registered for takes the place of the answer
Faulted(fault, r) == IF fault THEN ServerErrorResponse ELSE r

register(email, password, fault) ==
    /\ resp = NoResp
    /\ LET r == Register(users, settings, email, password) IN
       /\ users' = IF fault THEN users ELSE r.users
       /\ resp' = Answer("register", email, BadId, {}, r.resp.code # 422,
                         Faulted(fault, r.resp))
    /\ UNCHANGED <<conversations, notAccounts>>

login(email, password, fault) ==
    /\ resp = NoResp
    /\ LET r == Login(users, settings, email, password) IN
       resp' = Answer("login", email, BadId, {}, r.code # 422, Faulted(fault, r))
    /\ UNCHANGED <<users, conversations, notAccounts>>

\* the final outputs of an agent run: a text, or none
FinalOutputs == {<<"o", "k">>, <<>>}

\* POST /chat; a request without credentials is answered by the identity
\* verifier before the route runs
chat(u, authed, message, conversation_id, agent_ok, fault) ==
    /\ resp = NoResp
    /\ conversation_id = NoConversationId => conversations.last_id < MaxConversations
    /\ conversations.last_message_id + 2 <= MaxMessages
    /\ \E final_output \in FinalOutputs :
          LET r == Chat(conversations, u, message, conversation_id, agent_ok,
                        final_output, now)
              id == IF conversation_id = NoConversationId THEN BadId ELSE conversation_id
          IN IF ~authed
             THEN /\ conversations' = conversations
                  /\ resp' = Answer("chat", "None", id, {}, TRUE,
                                    AuthenticationResponse("/api/v1/chat"))
             ELSE /\ conversations' = IF fault THEN conversations ELSE r.conversations
                  /\ resp' = Answer("chat", u, id, {}, r.resp.code # 422,
                                    Faulted(fault, r.resp))
    /\ UNCHANGED <<users, notAccounts>>

get_conversation(u, conversation_id, fault) ==
    /\ resp = NoResp
    /\ \E r \in HttpGetConversation(conversations, u, conversation_id) :
          resp' = Answer("get_conversation", u, conversation_id, {}, TRUE, Faulted(fault, r))
    /\ UNCHANGED <<users, conversations, notAccounts>>

delete_conversation(u, conversation_id, fault) ==
    /\ resp = NoResp
    /\ LET r == HttpDeleteConversation(conversations, u, conversation_id) IN
       /\ conversations' = IF fault THEN conversations ELSE r.conversations
       /\ resp' = Answer("delete_conversation", u, conversation_id, {}, TRUE,
                         Faulted(fault, r.resp))
    /\ UNCHANGED <<users, notAccounts>>

NextErrors ==
    \/ Deliver
    \/ \E email \in Emails \cup {BadEmail}, password \in Passwords \cup {ShortPassword},
          fault \in BOOLEAN : register(email, password, fault)
    \/ \E email \in Emails \cup {BadEmail}, password \in Passwords \cup {EmptyPassword},
          fault \in BOOLEAN : login(email, password, fault)
    \/ \E u \in Owners, authed \in BOOLEAN, message \in ChatMessages,
          conversation_id \in ConversationIds \cup {NoConversationId}, agent_ok \in BOOLEAN,
          fault \in BOOLEAN :
          chat(u, authed, message, conversation_id, agent_ok, fault)
    \/ \E u \in Owners, id \in ConversationIds, fault \in BOOLEAN :
          get_conversation(u, id, fault)
    \/ \E u \in Owners, id \in ConversationIds, fault \in BOOLEAN :
          delete_conversation(u, id, fault)
    \/ \E u \in Owners, body \in {[title |-> <<"a">>], [title |-> <<>>], [title |-> <<" ">>]} :
          create_task(u, body)
    \/ \E u \in Owners, id \in IdInputs : get_task(u, id)

SpecErrors == InitErrors /\ [][NextErrors]_vars

\* the body is the uniform error body: type, title and status, optionally
\* detail and instance, and errors exactly when the status is 422 (instance_id
\* is the model's name for the identifier that detail and instance carry)
IsProblemBody(code, body) ==
    /\ {"type", "title", "status"} \subseteq DOMAIN body
    /\ DOMAIN body \subseteq {"type", "title", "status", "detail", "instance", "errors",
                              "instance_id"}
    /\ body.status = code
    /\ "errors" \in DOMAIN body <=> code = 422

\* C20 as stated: every 4xx and 5xx answer of every route (tasks, auth, chat,
\* conversations) has the uniform body {type, title, status, detail?,
\* instance?}, with errors for 422: duplicate email, bad login, missing
\* conversation, empty chat message, agent failure and unexpected fault
\* included
C20_ErrorsAreUniform ==
    resp.code >= 400 => IsProblemBody(resp.code, resp.body)

----------------------------------------------------------------------------
\* Claims on the task-id argument of the tools (specification Spec)

\* a tool result without the task id it echoes
WithoutTaskId(result) == [f \in DOMAIN result \ {"task_id"} |-> result[f]]

\* the well-formed ids that select no task of the caller: the task does not
\* exist or is another owner's
UnknownIds(store, user_id) ==
    {id \in 1..(MaxTasks + 1) : SelectByIdAndUser(store, id, user_id) = {}}

\* (title, description) arguments of the update tool, blank and usable
ToolUpdateArguments ==
    ToolUpdateInputs \cup {<<<<"B">>, <<"b">>>>, <<<<" ">>, <<" ">>>>, <<<<>>, None>>}

\* C21 as stated: for the complete, delete and update tools a task id that
\* cannot be parsed gives the same result (up to the id it echoes) as a
\* well-formed id of a task that does not exist or is not the caller's, for
\* every combination of the other arguments, and neither changes the store
C21_MalformedIdIsNotFound ==
    resp = NoResp =>
       \A u \in Owners : \A id \in UnknownIds(tasks, u) :
          /\ LET bad == ToolCompleteTask(tasks, u, BadId, now)
                 unk == ToolCompleteTask(tasks, u, id, now)
             IN /\ WithoutTaskId(bad.result) = WithoutTaskId(unk.result)
                /\ bad.store = tasks /\ unk.store = tasks
          /\ LET bad == ToolDeleteTask(tasks, u, BadId)
                 unk == ToolDeleteTask(tasks, u, id)
             IN /\ WithoutTaskId(bad.result) = WithoutTaskId(unk.result)
                /\ bad.store = tasks /\ unk.store = tasks
          /\ \A a \in ToolUpdateArguments :
                LET bad == ToolUpdateTask(tasks, u, BadId, a[1], a[2], now)
                    unk == ToolUpdateTask(tasks, u, id, a[1], a[2], now)
                IN /\ WithoutTaskId(bad.result) = WithoutTaskId(unk.result)
                   /\ bad.store = tasks /\ unk.store = tasks

\* the update arguments from which the tool builds no update although one was
\* given: a title that is blank once stripped and no description
BlankUpdate(a) ==
    /\ ~(a[1] = None /\ a[2] = None)
    /\ DOMAIN ToolUpdates(a[1], a[2]) = {}

\* C21 as the code has it: an unparseable task id is answered "Task not
\* found" by the complete and delete tools and, once a title or a description
\* is given, by the update tool, and changes nothing in the store; that is
\* the result for a well-formed id of a task that does not exist or is not
\* the caller's, except that the update tool checks a well-formed id only
\* after it has built the updates, so a blank title alone is answered "No
\* valid updates provided" for such an id
C21_MalformedIdIsNotFoundUnlessBlankUpdate ==
    resp = NoResp =>
       \A u \in Owners :
          /\ ToolCompleteTask(tasks, u, BadId, now) =
                [store |-> tasks, result |-> NotFoundResult(BadId)]
          /\ ToolDeleteTask(tasks, u, BadId) =
                [store |-> tasks, result |-> NotFoundResult(BadId)]
          /\ \A a \in ToolUpdateArguments :
                ~(a[1] = None /\ a[2] = None) =>
                   ToolUpdateTask(tasks, u, BadId, a[1], a[2], now) =
                      [store |-> tasks, result |-> NotFoundResult(BadId)]
          /\ \A id \in UnknownIds(tasks, u) :
                /\ ToolCompleteTask(tasks, u, id, now) =
                      [store |-> tasks, result |-> NotFoundResult(id)]
                /\ ToolDeleteTask(tasks, u, id) =
                      [store |-> tasks, result |-> NotFoundResult(id)]
                /\ \A a \in ToolUpdateArguments :
                      LET bad == ToolUpdateTask(tasks, u, BadId, a[1], a[2], now)
                          unk == ToolUpdateTask(tasks, u, id, a[1], a[2], now)
                      IN /\ unk.store = tasks
                         /\ IF BlankUpdate(a)
                            THEN unk.result = [error |-> "No valid updates provided"]
                            ELSE WithoutTaskId(bad.result) = WithoutTaskId(unk.result)

\* a tool was called with an unparseable id while another owner's task is
\* stored, and answered "Task not found"
C21_Witness ==
    /\ resp.op \in {"tool_complete", "tool_delete", "tool_update"}
    /\ resp.id = BadId
    /\ resp.body = NotFoundResult(BadId)
    /\ \E id \in DOMAIN tasks : tasks[id].user_id # resp.user

----------------------------------------------------------------------------
\* Concurrent registrations (specification SpecRegister): each register
\* request is served in its own database session, so the existence check of
\* one request and its commit may have the commit of another in between

\* the requests served side by side
Registrants == {1, 2}

IdleRegistrant == [pc |-> "idle", email |-> "None", password |-> "None", out |-> NoAnswer]

InitRegister ==
    /\ tasks = <<>>
    /\ nextId = 1
    /\ now = 0
    /\ resp = NoResp
    /\ settings \in AccountSettings
    /\ credential = "unused" /\ authOut = "unused"
    /\ LegacyUnused
    /\ inv = [i \in Registrants |-> IdleRegistrant]
    /\ users = <<>>
    /\ conversations = <<>>

notRegister == <<tasks, nextId, now, resp, settings, credential, authOut, runs, ctx,
                 conversations>>

\* a valid register body arrives
register_start(i, email, password) ==
    /\ inv[i].pc = "idle"
    /\ inv' = [inv EXCEPT ![i] = [pc |-> "select", email |-> email,
                                  password |-> password, out |-> NoAnswer]]
    /\ UNCHANGED <<users, notRegister>>

\* the existence check and the configuration check
register_select(i) ==
    /\ inv[i].pc = "select"
    /\ LET r == RegisterSelect(users, settings, inv[i].email) IN
       inv' = [inv EXCEPT ![i].pc = IF r = NoAnswer THEN "commit" ELSE "done",
                          ![i].out = r]
    /\ UNCHANGED <<users, notRegister>>

\* db.add(user); await db.commit()
register_commit(i) ==
    /\ inv[i].pc = "commit"
    /\ LET r == RegisterCommit(users, inv[i].email, inv[i].password) IN
       /\ users' = r.users
       /\ inv' = [inv EXCEPT ![i].pc = "done", ![i].out = r.resp]
    /\ UNCHANGED notRegister

NextRegister ==
    \/ \E i \in Registrants, email \in Emails, password \in Passwords :
          register_start(i, email, password)
    \/ \E i \in Registrants : register_select(i)
    \/ \E i \in Registrants : register_commit(i)

SpecRegister == InitRegister /\ [][NextRegister]_vars

\* the requests for an email, and those of them that were answered with a code
RegistrantsOf(email) == {i \in Registrants : inv[i].pc # "idle" /\ inv[i].email = email}

AnsweredWith(email, code) ==
    {i \in RegistrantsOf(email) : inv[i].pc = "done" /\ inv[i].out.code = code}

\* C22 as stated: register for an email already taken is answered 409 and
\* creates no user; however concurrent register requests for one email
\* interleave, exactly one of them is answered 201 and every other 409, and in
\* every reachable state no two users have the same email
C22_RegisterIsUnique ==
    /\ \A i, j \in DOMAIN users : users[i].email = users[j].email => i = j
    /\ Len(users) =
          Cardinality({i \in Registrants : inv[i].pc = "done" /\ inv[i].out.code = 201})
    /\ settings.jwt_secret # "" =>
          \A email \in Emails :
             /\ Cardinality(AnsweredWith(email, 201)) <= 1
             /\ \A i \in RegistrantsOf(email) :
                   inv[i].pc = "done" => inv[i].out.code \in {201, 409}
             /\ (RegistrantsOf(email) # {} /\ \A i \in RegistrantsOf(email) : inv[i].pc = "done")
                   => Cardinality(AnsweredWith(email, 201)) = 1

----------------------------------------------------------------------------
\* Claims on the account routes (specification SpecErrors)

\* C23: POST /auth/login answers an unknown email and a known email with a
\* wrong password alike, status 401 with one and the same body, whichever
\* password is sent with the unknown email and whether or not JWT_SECRET is
\* configured; every 401 a login gets has that body
C23_LoginHidesKnownEmails ==
    /\ resp = NoResp =>
          \A s \in AccountSettings, known \in Emails, unknown \in Emails,
             wrong \in Passwords \cup {ShortPassword}, any \in Passwords \cup {ShortPassword} :
             (/\ SelectUserByEmail(users, unknown) = {}
              /\ \E i \in SelectUserByEmail(users, known) :
                    ~VerifyPassword(wrong, users[i].hashed_password))
             => /\ Login(users, s, known, wrong).code = 401
                /\ Login(users, s, known, wrong) = Login(users, s, unknown, any)
    /\ resp.op = "login" /\ resp.code = 401 =>
          resp.body = [detail |-> "Invalid email or password"]

\* a login for a registered email was answered 401, while another email is
\* not registered
C23_Witness ==
    /\ resp.op = "login"
    /\ resp.code = 401
    /\ SelectUserByEmail(users, resp.user) # {}
    /\ \E unknown \in Emails : SelectUserByEmail(users, unknown) = {}

----------------------------------------------------------------------------
\* Conversations and chat (specification SpecChat): one chat request at a
\* time is followed through its steps, the agent run between the flush of the
\* user message and the commit; its tools commit task changes in sessions of
\* their own, and get and delete requests of either owner are served while
\* the agent runs. Every transaction starts later than the ones before it

\* the chat requests over a run of the model
MaxChats == 2

\* chat bodies: empty, blank, to be stripped, ordinary
ChatBodies == {<<>>, <<" ">>, <<"a", " ">>, <<"b">>}

IdleChat == [pc |-> "idle", user |-> "None", pending |-> NoPending, history |-> <<>>,
             updated_before |-> 0, tool_tasks |-> {}, final_output |-> <<>>]

\* the delete request in flight, between its count and its DELETE
IdleDelete == [pc |-> "idle", user |-> "None", id |-> NoConversationId, message_count |-> 0]

InitChat ==
    /\ tasks = <<>>
    /\ nextId = 1
    /\ now = 0
    /\ resp = NoResp
    /\ AuthUnused
    /\ ctx = "unused"
    /\ inv = IdleDelete
    /\ runs = IdleChat
    /\ users = <<>>
    /\ conversations = NoConversations

notChat == <<settings, credential, authOut, inv, ctx, users>>

\* POST /chat arrives and is served up to the agent run, or answered at once
chat_begin(u, message, conversation_id) ==
    /\ runs.pc = "idle"
    /\ resp = NoResp
    /\ now < MaxChats
    /\ conversation_id = NoConversationId => conversations.last_id < MaxConversations
    /\ conversations.last_message_id + 2 <= MaxMessages
    /\ now' = now + 1
    /\ LET b == ChatBegin(conversations, u, message, conversation_id, now + 1) IN
       /\ conversations' = b.conversations
       /\ IF b.resp # NoAnswer
          THEN /\ resp' = Answer("chat", u, conversation_id, {}, b.resp.code # 422, b.resp)
               /\ runs' = runs
          ELSE /\ resp' = resp
               /\ \E h \in b.histories :
                     runs' = [pc |-> "agent", user |-> u, pending |-> b.pending,
                              history |-> h,
                              updated_before |->
                                 IF b.pending.created THEN 0
                                 ELSE conversations.rows[conversation_id].updated_at,
                              tool_tasks |-> {}, final_output |-> <<>>]
    /\ UNCHANGED <<tasks, nextId, notChat>>

\* the agent invokes the add tool, which commits in its own session
chat_tool(title) ==
    /\ runs.pc = "agent"
    /\ nextId <= MaxTasks
    /\ LET r == ToolAddTask(tasks, runs.user, title, <<>>, nextId, now) IN
       /\ tasks' = r.store
       /\ nextId' = IF r.store # tasks THEN nextId + 1 ELSE nextId
       /\ runs' = [runs EXCEPT !.tool_tasks = IF r.store # tasks THEN @ \cup {nextId} ELSE @]
    /\ UNCHANGED <<now, resp, conversations, notChat>>

\* the agent run returns: assistant message, touch, commit
chat_finish(final_output) ==
    /\ runs.pc = "agent"
    /\ resp = NoResp
    /\ LET r == ChatFinish(conversations, runs.pending, final_output, now) IN
       /\ conversations' = r.conversations
       /\ resp' = Answer("chat", runs.user, runs.pending.conversation_id, {}, TRUE, r.resp)
    /\ runs' = [runs EXCEPT !.pc = "finished", !.final_output = final_output]
    /\ UNCHANGED <<tasks, nextId, now, notChat>>

\* the agent run raises
chat_fail ==
    /\ runs.pc = "agent"
    /\ resp = NoResp
    /\ LET r == ChatFail(conversations, runs.pending) IN
       /\ conversations' = r.conversations
       /\ resp' = Answer("chat", runs.user, runs.pending.conversation_id, {}, TRUE, r.resp)
    /\ runs' = [runs EXCEPT !.pc = "failed"]
    /\ UNCHANGED <<tasks, nextId, now, notChat>>

\* the answer of the chat request is sent
chat_end ==
    /\ runs.pc \in {"finished", "failed"}
    /\ resp' = NoResp
    /\ runs' = IdleChat
    /\ UNCHANGED <<tasks, nextId, now, conversations, notChat>>

\* the row of a conversation a chat request has stored a message for is
\* locked against deletion until that request commits or rolls back
Locked(conversation_id) ==
    runs.pc = "agent" /\ ~runs.pending.created
    /\ runs.pending.conversation_id = conversation_id

\* DELETE /conversations/{id} up to the message count, or answered 404
delete_count(u, conversation_id) ==
    /\ inv.pc = "idle"
    /\ resp = NoResp
    /\ IF GetConversation(conversations, conversation_id, u) = {}
       THEN /\ resp' = Answer("delete_conversation", u, conversation_id, {}, TRUE,
                              HttpDeleteConversation(conversations, u, conversation_id).resp)
            /\ inv' = inv
       ELSE /\ resp' = resp
            /\ inv' = [pc |-> "delete", user |-> u, id |-> conversation_id,
                       message_count |->
                          CountByConversation(conversations.messages, conversation_id)]
    /\ UNCHANGED <<tasks, nextId, now, runs, conversations, settings, credential, authOut,
                   ctx, users>>

\* DELETE /conversations/{id} from delete_by_id_and_user to the answer
delete_commit ==
    /\ inv.pc = "delete"
    /\ resp = NoResp
    /\ ~Locked(inv.id)
    /\ conversations' = DeleteByIdAndUser(conversations, inv.id, inv.user)
    /\ resp' = Answer("delete_conversation", inv.user, inv.id, {}, TRUE,
                      IF GetConversation(conversations, inv.id, inv.user) = {}
                      THEN HttpExceptionResponse(404, "Conversation not found")
                      ELSE [code |-> 200,
                            body |-> [success |-> TRUE,
                                      deleted_conversation_id |-> inv.id,
                                      deleted_message_count |-> inv.message_count]])
    /\ inv' = IdleDelete
    /\ UNCHANGED <<tasks, nextId, now, runs, settings, credential, authOut, ctx, users>>

NextChat ==
    \/ \E u \in Owners, message \in ChatBodies,
          conversation_id \in ConversationIds \cup {NoConversationId} :
          chat_begin(u, message, conversation_id)
    \/ \E title \in {<<"t">>, <<" ">>} : chat_tool(title)
    \/ \E final_output \in FinalOutputs : chat_finish(final_output)
    \/ chat_fail
    \/ chat_end
    \/ runs.pc \in {"idle", "agent"} /\ Deliver
    \/ \E u \in Owners, id \in ConversationIds : get_conversation(u, id, FALSE)
    \/ \E u \in Owners, id \in ConversationIds : delete_count(u, id)
    \/ delete_commit

SpecChat == InitChat /\ [][NextChat]_vars

\* Claims on conversations and chat (specification SpecChat)

\* the conversation ids that name no conversation
MissingConversationIds == (1..(MaxConversations + 1)) \ DOMAIN conversations.rows

NotFoundConversation == HttpExceptionResponse(404, "Conversation not found")

\* C24: get, delete and chat with the id of a conversation of another user
\* are answered as for an id that names no conversation, 404 once the body is
\* valid; they return none of its messages, append no message, hand no history
\* to the agent, delete nothing and leave the conversation, its updated_at
\* and both id sequences as they were
C24_ForeignConversationIsNotFound ==
    /\ resp = NoResp =>
          \A u \in Owners : \A c \in DOMAIN conversations.rows :
             conversations.rows[c].user_id # u =>
                /\ HttpGetConversation(conversations, u, c) = {NotFoundConversation}
                /\ HttpDeleteConversation(conversations, u, c) =
                      [conversations |-> conversations, resp |-> NotFoundConversation]
                /\ \A message \in ChatBodies :
                      LET b == ChatBegin(conversations, u, message, c, now + 1) IN
                      /\ b.conversations = conversations
                      /\ b.pending = NoPending
                      /\ b.histories = {}
                      /\ Strip(message) # <<>> => b.resp = NotFoundConversation
                      /\ \A ok \in BOOLEAN :
                            Chat(conversations, u, message, c, ok, <<"o", "k">>, now + 1) =
                               [conversations |-> conversations, resp |-> b.resp]
                      /\ \A missing \in MissingConversationIds :
                            b = ChatBegin(conversations, u, message, missing, now + 1)
                /\ \A missing \in MissingConversationIds :
                      /\ HttpGetConversation(conversations, u, missing) = {NotFoundConversation}
                      /\ HttpDeleteConversation(conversations, u, missing) =
                            [conversations |-> conversations, resp |-> NotFoundConversation]
    /\ (/\ resp.op \in {"get_conversation", "delete_conversation", "chat"}
        /\ resp.id \in DOMAIN conversations.rows
        /\ conversations.rows[resp.id].user_id # resp.user)
       => /\ resp.code \in {404, 400, 422}
          /\ resp.valid /\ resp.code # 400 => resp.body = NotFoundConversation.body

\* a request for another user's conversation, which holds messages, was
\* answered 404
C24_Witness ==
    /\ resp.op \in {"get_conversation", "delete_conversation", "chat"}
    /\ resp.code = 404
    /\ resp.id \in DOMAIN conversations.rows
    /\ conversations.rows[resp.id].user_id # resp.user
    /\ MessagesOf(conversations.messages, resp.id) # {}

\* C25 as stated: in every reachable state each message belongs to an existing
\* conversation; a successful delete of a conversation removes it together
\* with all of its messages and nothing else, and reports as
\* deleted_message_count the number of messages the conversation had
C25_DeleteCascadesAndCounts ==
    /\ [](\A m \in DOMAIN conversations.messages :
             conversations.messages[m].conversation_id \in DOMAIN conversations.rows)
    /\ [][(resp'.op = "delete_conversation" /\ resp'.code = 200 /\ resp = NoResp)
          => /\ DOMAIN conversations'.rows = DOMAIN conversations.rows \ {resp'.id}
             /\ \A c \in DOMAIN conversations'.rows :
                   conversations'.rows[c] = conversations.rows[c]
             /\ DOMAIN conversations'.messages =
                   DOMAIN conversations.messages \ MessagesOf(conversations.messages, resp'.id)
             /\ \A m \in DOMAIN conversations'.messages :
                   conversations'.messages[m] = conversations.messages[m]
             /\ resp'.body.deleted_message_count =
                   Cardinality(DOMAIN conversations.messages)
                   - Cardinality(DOMAIN conversations'.messages)]_vars

\* the same with the count as the route takes it: the number of messages the
\* conversation had when the request counted them
C25_DeleteCascades ==
    /\ [](\A m \in DOMAIN conversations.messages :
             conversations.messages[m].conversation_id \in DOMAIN conversations.rows)
    /\ [][(resp'.op = "delete_conversation" /\ resp'.code = 200 /\ resp = NoResp)
          => /\ DOMAIN conversations'.rows = DOMAIN conversations.rows \ {resp'.id}
             /\ \A c \in DOMAIN conversations'.rows :
                   conversations'.rows[c] = conversations.rows[c]
             /\ DOMAIN conversations'.messages =
                   DOMAIN conversations.messages \ MessagesOf(conversations.messages, resp'.id)
             /\ \A m \in DOMAIN conversations'.messages :
                   conversations'.messages[m] = conversations.messages[m]
             /\ resp'.body.deleted_message_count = inv.message_count]_vars

\* a set of ids as the sequence in which they were given out
RECURSIVE Ascending(_)
Ascending(ids) ==
    IF ids = {} THEN <<>>
    ELSE LET least == CHOOSE a \in ids : \A b \in ids : a <= b
         IN <<least>> \o Ascending(ids \ {least})

\* the n messages appended last to a conversation (all of them when it has
\* fewer), oldest first
LastAppended(messages, conversation_id, n) ==
    LET q == Ascending(MessagesOf(messages, conversation_id)) IN
    SubSeq(q, IF Len(q) > n THEN Len(q) - n + 1 ELSE 1, Len(q))

\* C26 as stated: get_last_n(conversation, n) returns the min(n, total)
\* messages appended last to that conversation and of no other, in the order
\* in which they were appended, also when several of them were appended by
\* one request and carry the same created_at
C26_LastNInAppendOrder ==
    \A c \in DOMAIN conversations.rows : \A n \in 1..(MaxMessages + 1) :
       GetLastN(conversations.messages, c, n) = {LastAppended(conversations.messages, c, n)}

\* the user message a chat request has flushed
PendingUserMessage == runs.pending.messages[CHOOSE m \in DOMAIN runs.pending.messages : TRUE]

----------------------------------------------------------------------------
\* Tools against routes (specification SpecTitles)

\* a title one character over the limit
LongTitle == [i \in 1..(TITLE_MAX_LENGTH + 1) |-> "a"]

EquivalenceTitles == TitleCases \cup {LongTitle}

\* descriptions as the add tool takes them: none (""), ordinary, padded
EquivalenceDescriptions == {<<>>, <<"b">>, <<"b", " ">>}

\* the POST body with the inputs of add_task(title, description)
CreateBodyOf(title, description) ==
    IF description = <<>> THEN [title |-> title]
    ELSE [title |-> title, description |-> description]

\* the PATCH body with the inputs of update_task(title, description)
PatchBodyOf(title, description) ==
    [f \in (IF title # None THEN {"title"} ELSE {})
           \cup (IF description # None THEN {"description"} ELSE {}) |->
        IF f = "title" THEN title ELSE description]

\* add_task and POST /tasks both store, and then the same task, or both reject
AddAgrees(u) ==
    \A title \in EquivalenceTitles, description \in EquivalenceDescriptions :
       LET h == HttpCreateTask(tasks, u, CreateBodyOf(title, description), nextId, now)
           t == ToolAddTask(tasks, u, title, description, nextId, now)
       IN /\ h.resp.code = 201 <=> "error" \notin DOMAIN t.result
          /\ h.store = t.store

\* complete_task and PATCH {status: completed}
CompleteAgrees(u) ==
    \A id \in 1..(MaxTasks + 1) :
       LET h == HttpUpdateTask(tasks, u, id, [status |-> COMPLETED], now)
           t == ToolCompleteTask(tasks, u, id, now)
       IN /\ h.resp.code = 404 <=> t.result = NotFoundResult(id)
          /\ h.resp.code = 200 <=> "error" \notin DOMAIN t.result
          /\ h.store = t.store

\* update_task and PATCH {title, description}
UpdateAgrees(u) ==
    \A id \in 1..(MaxTasks + 1) :
       \A title \in EquivalenceTitles \cup {None},
          description \in (EquivalenceDescriptions \ {<<>>}) \cup {None} :
          ~(title = None /\ description = None) =>
             LET h == HttpUpdateTask(tasks, u, id, PatchBodyOf(title, description), now)
                 t == ToolUpdateTask(tasks, u, id, title, description, now)
             IN /\ h.resp.code = 404 <=> t.result = NotFoundResult(id)
                /\ h.resp.code = 200 <=> "error" \notin DOMAIN t.result
                /\ h.store = t.store

\* delete_task and DELETE /tasks/{id}
DeleteAgrees(u) ==
    \A id \in 1..(MaxTasks + 1) :
       LET h == HttpDeleteTask(tasks, u, id)
           t == ToolDeleteTask(tasks, u, id)
       IN /\ h.resp.code = 404 <=> t.result = NotFoundResult(id)
          /\ h.resp.code = 204 <=> "error" \notin DOMAIN t.result
          /\ h.store = t.store

\* C28 as stated: for the same owner and the same inputs a tool and its route
\* change the task store in the same way: add and POST /tasks store the same
\* task or both reject; complete and PATCH {status: completed}, update and
\* PATCH {title, description}, delete and DELETE leave the same store and
\* agree on found against not found
C28_ToolsMatchRoutes ==
    resp = NoResp =>
       \A u \in Owners :
          AddAgrees(u) /\ CompleteAgrees(u) /\ UpdateAgrees(u) /\ DeleteAgrees(u)

----------------------------------------------------------------------------
\* Claims on the transaction of a chat request (specification SpecChat)

\* nothing the chat request in flight has written is in the committed store
NothingPersisted ==
    /\ DOMAIN runs.pending.messages \cap DOMAIN conversations.messages = {}
    /\ \A m \in DOMAIN conversations.messages :
          \A p \in DOMAIN runs.pending.messages : m < p
    /\ IF runs.pending.created
       THEN runs.pending.conversation_id \notin DOMAIN conversations.rows
       ELSE /\ runs.pending.conversation_id \in DOMAIN conversations.rows
            /\ conversations.rows[runs.pending.conversation_id].updated_at =
                  runs.updated_before

\* the tasks the tools of the run have added are stored for the caller
ToolTasksRemain ==
    \A id \in runs.tool_tasks : id \in DOMAIN tasks /\ tasks[id].user_id = runs.user

\* C29: the conversation and message writes of a chat request are committed
\* together and only after the agent run has succeeded: while the agent runs
\* none of them is in the committed store; when the run fails the answer is
\* 500 and no conversation, user message, assistant message or updated_at
\* change of the request is persisted, while the tasks its tools added remain;
\* when it succeeds the conversation, both messages and the new updated_at
\* are there at once
C29_ChatCommitsAfterAgent ==
    /\ runs.pc = "agent" => NothingPersisted /\ ToolTasksRemain
    /\ runs.pc = "failed" =>
          /\ resp.op = "chat" /\ resp.code = 500
          /\ NothingPersisted
          /\ ToolTasksRemain
    /\ runs.pc = "finished" =>
          /\ resp.op = "chat" /\ resp.code = 200
          /\ runs.pending.conversation_id \in DOMAIN conversations.rows
          /\ conversations.rows[runs.pending.conversation_id].updated_at = now
          /\ DOMAIN runs.pending.messages \subseteq DOMAIN conversations.messages
          /\ conversations.messages[conversations.last_message_id].role = ASSISTANT
          /\ ToolTasksRemain

\* the agent run of a chat request on an existing conversation failed after
\* one of its tools had added a task
C29_Witness ==
    /\ runs.pc = "failed"
    /\ runs.tool_tasks # {}
    /\ ~runs.pending.created
    /\ MessagesOf(conversations.messages, runs.pending.conversation_id) # {}

-----------------------------------------------------------------------------
\* The in-memory TodoService of the console prototype (specification SpecTodo).
\* The service object is held in ctx, the outcome of the last call in resp.

MaxTodos == 2

TODO_TITLE_LIMIT == 100

NoError == ""

EmptyTitleError == "Title cannot be empty or contain only whitespace"

LongTitleError == "Title cannot exceed 100 characters"

\* TodoItem.validate_title: the message of the ValueError raised, or NoError
ValidateTitle(title) ==
    IF title = <<>> \/ Strip(title) = <<>> THEN EmptyTitleError
    ELSE IF Len(title) > TODO_TITLE_LIMIT THEN LongTitleError
    ELSE NoError

\* TodoItem.__init__ once the title has passed validate_title
TodoItem(id, title, description) ==
    [id |-> id, title |-> title, description |-> description, completed |-> FALSE]

\* TodoItem.update_title that assigns before it validates
UpdateTitleUnchecked(todo, new_title) ==
    [item |-> [todo EXCEPT !.title = new_title], raised |-> ValidateTitle(new_title)]

\* TodoItem.update_title: the item as the call leaves it, and what it raised
UpdateTitle(todo, new_title) ==
    LET e == ValidateTitle(new_title)
    IN  [item |-> IF e = NoError THEN [todo EXCEPT !.title = new_title] ELSE todo,
         raised |-> e]

\* TodoService.__init__
NewTodoService == [todos |-> <<>>, next_id |-> 1]

\* TodoService.get_todo_by_id: the position of the first item with the id, 0
\* for None
GetTodoById(service, todo_id) ==
    LET at == {i \in DOMAIN service.todos : service.todos[i].id = todo_id}
    IN  IF at = {} THEN 0 ELSE CHOOSE i \in at : \A j \in at : i <= j

TodoRaises(service, e) == [service |-> service, raised |-> e, returned |-> None]

TodoReturns(service, value) == [service |-> service, raised |-> NoError, returned |-> value]

\* TodoService.add_todo
AddTodo(service, title, description) ==
    LET e == ValidateTitle(Strip(title))
    IN  IF e # NoError THEN TodoRaises(service, e)
        ELSE LET todo == TodoItem(service.next_id, Strip(title), Strip(description))
             IN  TodoReturns([todos |-> Append(service.todos, todo),
                          next_id |-> service.next_id + 1], todo)

\* TodoService.update_todo; updates holds the keyword arguments that are not None
UpdateTodo(service, todo_id, updates) ==
    LET i == GetTodoById(service, todo_id)
    IN  IF i = 0 THEN TodoReturns(service, FALSE)
        ELSE
          LET todo == service.todos[i]
              t == IF "title" \in DOMAIN updates
                   THEN UpdateTitle(todo, Strip(updates.title))
                   ELSE [item |-> todo, raised |-> NoError]
              d == IF "description" \in DOMAIN updates
                   THEN [t.item EXCEPT !.description = Strip(updates.description)]
                   ELSE t.item
              c == IF "completed" \in DOMAIN updates
                   THEN [d EXCEPT !.completed = updates.completed]
                   ELSE d
          IN  IF t.raised # NoError
              THEN TodoRaises([service EXCEPT !.todos[i] = t.item], t.raised)
              ELSE TodoReturns([service EXCEPT !.todos[i] = c], TRUE)

\* TodoService.delete_todo
DeleteTodo(service, todo_id) ==
    LET i == GetTodoById(service, todo_id)
    IN  IF i = 0 THEN TodoReturns(service, FALSE)
        ELSE TodoReturns([service EXCEPT !.todos =
                         SubSeq(service.todos, 1, i - 1)
                         \o SubSeq(service.todos, i + 1, Len(service.todos))], TRUE)

\* TodoService.mark_complete
MarkComplete(service, todo_id) ==
    LET i == GetTodoById(service, todo_id)
    IN  IF i = 0 THEN TodoReturns(service, FALSE)
        ELSE TodoReturns([service EXCEPT !.todos[i].completed = TRUE], TRUE)

\* TodoService.mark_incomplete
MarkIncomplete(service, todo_id) ==
    LET i == GetTodoById(service, todo_id)
    IN  IF i = 0 THEN TodoReturns(service, FALSE)
        ELSE TodoReturns([service EXCEPT !.todos[i].completed = FALSE], TRUE)

\* what is remembered of a call: the method, the message of a ValueError and
\* the kind of value returned
TodoCall(op, r) ==
    [op |-> op, raised |-> r.raised,
     returned |-> IF r.raised # NoError THEN "raise"
                  ELSE IF op = "add_todo" THEN "TodoItem"
                  ELSE IF r.returned THEN "True" ELSE "False"]

NoTodoCall == [op |-> "none", raised |-> NoError, returned |-> "None"]

TooLongTitle == [i \in 1..(TODO_TITLE_LIMIT + 1) |-> "a"]

\* over the limit as passed, at the limit once stripped
PaddedTitle == [i \in 1..TODO_TITLE_LIMIT |-> "a"] \o <<" ">>

TodoTitles == {<<>>, <<" ">>, <<" ", "a", " ">>, TooLongTitle, PaddedTitle}

TodoDescriptions == {<<>>, <<" ", "d">>}

TodoIds == 1..(MaxTodos + 1)

TodoUpdates ==
    {[title |-> t] : t \in TodoTitles}
    \cup {[description |-> d] : d \in TodoDescriptions}
    \cup {[completed |-> c] : c \in BOOLEAN}
    \cup {[title |-> t, description |-> <<" ", "d">>, completed |-> c] :
             t \in TodoTitles, c \in BOOLEAN}

InitTodo ==
    /\ tasks = <<>>
    /\ nextId = 1
    /\ now = 0
    /\ resp = NoTodoCall
    /\ AuthUnused /\ BridgeUnused /\ AccountsUnused
    /\ runs = <<>>
    /\ ctx = NewTodoService

notTodo == <<tasks, nextId, now, settings, credential, authOut, inv, runs, users,
             conversations>>

TodoStep(op, r) ==
    /\ ctx' = r.service
    /\ resp' = TodoCall(op, r)
    /\ UNCHANGED notTodo

add_todo(title, description) ==
    LET r == AddTodo(ctx, title, description)
    IN  /\ r.raised # NoError \/ ctx.next_id <= MaxTodos
        /\ TodoStep("add_todo", r)

update_todo(todo_id, updates) == TodoStep("update_todo", UpdateTodo(ctx, todo_id, updates))

delete_todo(todo_id) == TodoStep("delete_todo", DeleteTodo(ctx, todo_id))

mark_complete(todo_id) == TodoStep("mark_complete", MarkComplete(ctx, todo_id))

mark_incomplete(todo_id) == TodoStep("mark_incomplete", MarkIncomplete(ctx, todo_id))

NextTodo ==
    \/ \E title \in TodoTitles, description \in TodoDescriptions :
          add_todo(title, description)
    \/ \E todo_id \in TodoIds, updates \in TodoUpdates : update_todo(todo_id, updates)
    \/ \E todo_id \in TodoIds : delete_todo(todo_id)
    \/ \E todo_id \in TodoIds : mark_complete(todo_id)
    \/ \E todo_id \in TodoIds : mark_incomplete(todo_id)

SpecTodo == InitTodo /\ [][NextTodo]_vars

-----------------------------------------------------------------------------
\* Claims on the in-memory TodoService (specification SpecTodo)

\* a call of a method answering True or False that raised, or returned False
Failed(r) == r.raised # NoError \/ r.returned = FALSE

KnownTodoIds == {ctx.todos[i].id : i \in DOMAIN ctx.todos}

\* the ids no item carries give False from all four methods, and the service
\* is as before
UnknownIdChangesNothing ==
    \A todo_id \in TodoIds \ KnownTodoIds :
        /\ \A updates \in TodoUpdates :
              UpdateTodo(ctx, todo_id, updates) = TodoReturns(ctx, FALSE)
        /\ DeleteTodo(ctx, todo_id) = TodoReturns(ctx, FALSE)
        /\ MarkComplete(ctx, todo_id) = TodoReturns(ctx, FALSE)
        /\ MarkIncomplete(ctx, todo_id) = TodoReturns(ctx, FALSE)

\* whatever the inputs, a call that failed left the service as it was
FailureChangesNothing ==
    /\ \A title \in TodoTitles, description \in TodoDescriptions :
          LET r == AddTodo(ctx, title, description)
          IN  r.raised # NoError => r.service = ctx
    /\ \A todo_id \in TodoIds :
          /\ \A updates \in TodoUpdates :
                LET r == UpdateTodo(ctx, todo_id, updates)
                IN  Failed(r) => r.service = ctx
          /\ Failed(DeleteTodo(ctx, todo_id)) => DeleteTodo(ctx, todo_id).service = ctx
          /\ Failed(MarkComplete(ctx, todo_id)) => MarkComplete(ctx, todo_id).service = ctx
          /\ Failed(MarkIncomplete(ctx, todo_id))
                => MarkIncomplete(ctx, todo_id).service = ctx

\* add_todo and update_todo of a known item raise ValueError for every title
\* of the set and leave the service as it was
TitlesRaise(titles) ==
    /\ \A title \in titles, description \in TodoDescriptions :
          LET r == AddTodo(ctx, title, description)
          IN  r.raised # NoError /\ r.service = ctx
    /\ \A todo_id \in KnownTodoIds, updates \in TodoUpdates :
          ("title" \in DOMAIN updates /\ updates.title \in titles)
          => LET r == UpdateTodo(ctx, todo_id, updates)
             IN  r.raised # NoError /\ r.service = ctx

\* C30 as stated: every failed operation of the TodoService leaves the store
\* unchanged; a title that is empty, whitespace-only or longer than 100
\* characters makes add_todo and update_todo raise ValueError without adding
\* an item, consuming an id or changing a field, and an unknown id gives False
\* from update_todo, delete_todo, mark_complete and mark_incomplete with
\* nothing changed.
C30_FailedOperationsChangeNothing ==
    /\ FailureChangesNothing
    /\ UnknownIdChangesNothing
    /\ TitlesRaise({t \in TodoTitles :
                       t = <<>> \/ Strip(t) = <<>> \/ Len(t) > TODO_TITLE_LIMIT})

\* C30 with the title measured as the service validates it: every failed
\* operation leaves the store unchanged; a title that is empty or longer than
\* 100 characters once its surrounding whitespace is stripped makes add_todo
\* and update_todo raise ValueError with nothing changed, and an unknown id
\* gives False from the four methods with nothing changed.
C30_FailedOperationsChangeNothingStripped ==
    /\ FailureChangesNothing
    /\ UnknownIdChangesNothing
    /\ TitlesRaise({t \in TodoTitles :
                       Strip(t) = <<>> \/ Len(Strip(t)) > TODO_TITLE_LIMIT})

\* update_todo with an invalid title has just raised on a service holding an
\* item whose fields had been changed before, and an id has been deleted
C30_Witness ==
    /\ resp.op = "update_todo" /\ resp.raised = LongTitleError
    /\ \E i \in DOMAIN ctx.todos :
          ctx.todos[i].completed /\ ctx.todos[i].description # <<>>
    /\ TodoIds \ KnownTodoIds # {MaxTodos + 1}
    /\ ctx.next_id = MaxTodos + 1

====
